---- MODULE Spec2Model ----
(***************************************************************************)
(* dummyxarray: multi-file metadata federation.                            *)
(*                                                                         *)
(*   mixins/file_tracker.py  FileTrackerMixin (the file registry)          *)
(*   mfdataset.py            open_mfdataset, validation and merge          *)
(*   time_utils.py           create_time_periods (the period planner)      *)
(*                                                                         *)
(* Python values are tagged records [k, v]: None, numbers, timestamps and  *)
(* dicts, so that a comparison between two kinds can fail the way Python's *)
(* `<` raises TypeError.  A dict with insertion order is a sequence of     *)
(* entries with pairwise distinct keys.                                    *)
(***************************************************************************)
EXTENDS Integers, Sequences, FiniteSets, TLC

VARIABLES
    file_tracking_enabled,  \* FileTrackerMixin._file_tracking_enabled
    concat_dim,             \* FileTrackerMixin._concat_dim
    file_sources,           \* FileTrackerMixin._file_sources (insertion-ordered dict)
    ds,                     \* DummyDataset.dims / coords / variables / attrs
    call,                   \* the last call made and its arguments
    ret,                    \* how that call ended: a value returned or an error raised
    calls,                  \* history: add_file_source calls accepted since the last enable
    file_metadata,          \* the list of per-file records handed to the validator
    start,                  \* create_time_periods: argument start
    end,                    \* create_time_periods: argument end
    group_freq,             \* create_time_periods: argument group_freq
    current,                \* create_time_periods: local current
    periods,                \* create_time_periods: local periods
    pc,                     \* create_time_periods: position in the function
    heap,                   \* the attrs and metadata dicts, by identity (grouping)
    result                  \* groupby_time: the list of groups returned

vars == <<file_tracking_enabled, concat_dim, file_sources, ds, call, ret, calls,
          file_metadata, start, end, group_freq, current, periods, pc, heap, result>>

regVars == <<file_tracking_enabled, concat_dim, file_sources>>
planVars == <<start, end, group_freq, current, periods, pc>>
groupVars == <<heap, result>>

(***************************************************************************)
(* Python values                                                           *)
(***************************************************************************)
None == [k |-> "none", v |-> 0]
Num(n) == [k |-> "num", v |-> n]
Ts(n) == [k |-> "ts", v |-> n]
Dict(f) == [k |-> "dict", v |-> f]
EmptyDict == Dict(<<>>)

IsNone(x) == x.k = "none"

\* Python truthiness of an optional dict: None and {} are falsy.
Falsy(x) == IsNone(x) \/ x = EmptyDict

\* a < b on two non-None values: "T", "F", or "E" when Python raises TypeError
\* because the two kinds have no common order (a number against a timestamp).
Lt(a, b) ==
    IF a.k # b.k THEN "E"
    ELSE IF a.v < b.v THEN "T" ELSE "F"

\* What a call leaves behind.
Returned(x) == [status |-> "ok", value |-> x]
Raised(e) == [status |-> "raise", value |-> e]
NoCall == [op |-> "none"]
NoRet == [status |-> "none", value |-> None]

(***************************************************************************)
(* Insertion-ordered dict keyed by filepath                                *)
(***************************************************************************)
Keys(d) == [i \in 1..Len(d) |-> d[i].filepath]
HasKey(d, key) == \E i \in 1..Len(d) : d[i].filepath = key
IndexOf(d, key) == CHOOSE i \in 1..Len(d) : d[i].filepath = key
Lookup(d, key) == d[IndexOf(d, key)]

\* d[key] = entry: a new key is appended, an existing key keeps its position.
DictSetMoveToEnd(d, key, entry) ==
    Append(SelectSeq(d, LAMBDA e : e.filepath # key), entry)

DictSetKeepFirst(d, key, entry) ==
    IF HasKey(d, key) THEN d ELSE Append(d, entry)

DictSet(d, key, entry) ==
    IF HasKey(d, key)
    THEN [d EXCEPT ![IndexOf(d, key)] = entry]
    ELSE Append(d, entry)

(***************************************************************************)
(* FileTrackerMixin                                                        *)
(***************************************************************************)
\* A selector as get_source_files receives it: absent (None), slice(start, stop),
\* or a single value.
Absent == [kind |-> "absent", start |-> None, stop |-> None]
Slice(a, b) == [kind |-> "slice", start |-> a, stop |-> b]
Value(x) == [kind |-> "value", start |-> x, stop |-> x]

RangesOverlapNonStrict(start1, stop1, start2, stop2) ==
    IF IsNone(start1) \/ IsNone(stop1) \/ IsNone(start2) \/ IsNone(stop2)
    THEN TRUE
    ELSE /\ (Lt(start1, stop2) # "F" \/ start1 = stop2)
         /\ (Lt(start2, stop1) # "F" \/ start2 = stop1)

RangesOverlapStrictTypes(start1, stop1, start2, stop2) ==
    IF IsNone(start1) \/ IsNone(stop1) \/ IsNone(start2) \/ IsNone(stop2)
    THEN TRUE
    ELSE Lt(start1, stop2) = "T" /\ Lt(start2, stop1) = "T"

\* _ranges_overlap: any None bound gives True; otherwise
\* `start1 < stop2 and start2 < stop1`, evaluated left to right with short
\* circuit, and True when the comparison that is evaluated raises.
RangesOverlap(start1, stop1, start2, stop2) ==
    IF IsNone(start1) \/ IsNone(stop1) \/ IsNone(start2) \/ IsNone(stop2)
    THEN TRUE
    ELSE LET c1 == Lt(start1, stop2) IN
         IF c1 = "E" THEN TRUE
         ELSE IF c1 = "F" THEN FALSE
         ELSE Lt(start2, stop1) # "F"

\* The selector get_source_files works with: the positional coord_slice, or,
\* when that is None, the keyword argument named after the concat dimension.
EffectiveSelector(cd, coord_slice, coord_selectors) ==
    IF coord_slice.kind = "absent" /\ cd \in DOMAIN coord_selectors
    THEN coord_selectors[cd]
    ELSE coord_slice

GetSourceFiles(enabled, cd, sources, coord_slice, coord_selectors) ==
    IF ~enabled THEN <<>>
    ELSE LET sel == EffectiveSelector(cd, coord_slice, coord_selectors) IN
         IF sel.kind = "absent" THEN Keys(sources)
         ELSE Keys(SelectSeq(sources, LAMBDA info :
                 RangesOverlap(sel.start, sel.stop,
                               info.coord_range[1], info.coord_range[2])))

\* The entry add_file_source stores.
NewEntry(cd, filepath, coord_range, metadata) ==
    [filepath |-> filepath, coord_range |-> coord_range, concat_dim |-> cd,
     metadata |-> IF Falsy(metadata) THEN EmptyDict ELSE metadata]

\* enable_file_tracking(concat_dim)
EnableFileTracking(cd) ==
    /\ file_tracking_enabled' = TRUE
    /\ concat_dim' = cd
    /\ file_sources' = <<>>
    /\ call' = [op |-> "enable_file_tracking", concat_dim |-> cd]
    /\ ret' = Returned(None)

AddFileSourceNoGuard(filepath, coord_range, metadata) ==
    /\ call' = [op |-> "add_file_source", filepath |-> filepath,
                coord_range |-> coord_range, metadata |-> metadata]
    /\ file_sources' = DictSet(file_sources, filepath,
                           NewEntry(concat_dim, filepath, coord_range, metadata))
    /\ ret' = Returned(None)
    /\ UNCHANGED <<file_tracking_enabled, concat_dim>>

\* add_file_source(filepath, coord_range, metadata)
AddFileSource(filepath, coord_range, metadata) ==
    /\ call' = [op |-> "add_file_source", filepath |-> filepath,
                coord_range |-> coord_range, metadata |-> metadata]
    /\ IF ~file_tracking_enabled
       THEN /\ ret' = Raised("RuntimeError: File tracking not enabled")
            /\ UNCHANGED regVars
       ELSE /\ file_sources' = DictSet(file_sources, filepath,
                                  NewEntry(concat_dim, filepath, coord_range, metadata))
            /\ ret' = Returned(None)
            /\ UNCHANGED <<file_tracking_enabled, concat_dim>>

\* get_source_files(coord_slice, **coord_selectors)
GetSourceFilesCall(coord_slice, coord_selectors) ==
    /\ call' = [op |-> "get_source_files", coord_slice |-> coord_slice,
                coord_selectors |-> coord_selectors]
    /\ ret' = Returned(GetSourceFiles(file_tracking_enabled, concat_dim, file_sources,
                                      coord_slice, coord_selectors))
    /\ UNCHANGED regVars

(***************************************************************************)
(* mfdataset.py: per-file records, validation, merge                       *)
(***************************************************************************)
\* A per-file record is
\*   [filepath, dims, coords, variables, attrs, coord_ranges]
\* with dims a map name -> size, variables and coords maps name -> [dims, attrs],
\* and coord_ranges a map holding the concat coordinate's (first, last) value.

MissingDimError(i, source) ==
    [kind |-> "missing_dim", index |-> i, source |-> source]
VariableMismatchError(i, missing, extra) ==
    [kind |-> "variable_mismatch", index |-> i, missing |-> missing, extra |-> extra]
DimensionMismatchError(var_name, i, expected, actual) ==
    [kind |-> "dimension_mismatch", variable |-> var_name, index |-> i,
     expected |-> expected, actual |-> actual]

VarNamesOf(metadata) == DOMAIN metadata.variables

\* for i, metadata in enumerate(file_metadata): the first position (1-based)
\* from i on whose dims lack concat_dim, 0 when there is none.
RECURSIVE FirstWithoutDim(_, _, _)
FirstWithoutDim(fm, cd, i) ==
    IF i > Len(fm) THEN 0
    ELSE IF cd \notin DOMAIN fm[i].dims THEN i
    ELSE FirstWithoutDim(fm, cd, i + 1)

\* for i, metadata in enumerate(file_metadata[1:], start=1): the first position
\* whose variable-name set differs from first_vars, 0 when there is none.
RECURSIVE FirstVarMismatch(_, _, _)
FirstVarMismatch(fm, first_vars, i) ==
    IF i > Len(fm) THEN 0
    ELSE IF VarNamesOf(fm[i]) # first_vars THEN i
    ELSE FirstVarMismatch(fm, first_vars, i + 1)

\* The inner loop of the dimension check for one variable: the first position
\* whose dims tuple for var_name differs from the first record's.
RECURSIVE FirstDimMismatch(_, _, _)
FirstDimMismatch(fm, var_name, i) ==
    IF i > Len(fm) THEN 0
    ELSE IF fm[i].variables[var_name].dims # fm[1].variables[var_name].dims THEN i
    ELSE FirstDimMismatch(fm, var_name, i + 1)

\* The dimension check: `for var_name in first_vars` walks a set of strings,
\* whose iteration order is not fixed by the program, so the variable reported
\* is any variable that has a mismatch.  Positions are reported 0-based.
DimCheckOutcomes(fm) ==
    LET offending == {v \in VarNamesOf(fm[1]) : FirstDimMismatch(fm, v, 2) # 0} IN
    IF offending = {} THEN {Returned(None)}
    ELSE {Raised(DimensionMismatchError(v, FirstDimMismatch(fm, v, 2) - 1,
                     fm[1].variables[v].dims,
                     fm[FirstDimMismatch(fm, v, 2)].variables[v].dims)) : v \in offending}

ValidateSkipVariableCheck(fm, cd) ==
    IF fm = <<>> THEN {Returned(None)}
    ELSE IF FirstWithoutDim(fm, cd, 1) # 0
    THEN {Raised(MissingDimError(FirstWithoutDim(fm, cd, 1) - 1,
                                 fm[FirstWithoutDim(fm, cd, 1)].filepath))}
    ELSE {Returned(None)}

ValidateMissingExtraSwapped(fm, cd) ==
    IF fm = <<>> THEN {Returned(None)}
    ELSE IF FirstWithoutDim(fm, cd, 1) # 0
    THEN {Raised(MissingDimError(FirstWithoutDim(fm, cd, 1) - 1,
                                 fm[FirstWithoutDim(fm, cd, 1)].filepath))}
    ELSE LET first_vars == VarNamesOf(fm[1])
             j == FirstVarMismatch(fm, first_vars, 2)
         IN  IF j # 0
             THEN {Raised(VariableMismatchError(j - 1,
                             VarNamesOf(fm[j]) \ first_vars,
                             first_vars \ VarNamesOf(fm[j])))}
             ELSE DimCheckOutcomes(fm)

\* _validate_file_compatibility(file_metadata, concat_dim): the set of ways the
\* call can end.
ValidateFileCompatibility(fm, cd) ==
    IF fm = <<>> THEN {Returned(None)}
    ELSE IF FirstWithoutDim(fm, cd, 1) # 0
    THEN {Raised(MissingDimError(FirstWithoutDim(fm, cd, 1) - 1,
                                 fm[FirstWithoutDim(fm, cd, 1)].filepath))}
    ELSE LET first_vars == VarNamesOf(fm[1])
             j == FirstVarMismatch(fm, first_vars, 2)
         IN  IF j # 0
             THEN {Raised(VariableMismatchError(j - 1,
                             first_vars \ VarNamesOf(fm[j]),
                             VarNamesOf(fm[j]) \ first_vars))}
             ELSE DimCheckOutcomes(fm)

\* sum(m["dims"][concat_dim] for m in file_metadata), in input order.
RECURSIVE SumConcatSizes(_, _, _)
SumConcatSizes(fm, cd, i) ==
    IF i > Len(fm) THEN 0
    ELSE fm[i].dims[cd] + SumConcatSizes(fm, cd, i + 1)

\* DummyArray(dims, attrs): attrs or {}.
DummyArray(dims, attrs) == [dims |-> dims, attrs |-> attrs]

CombineFirstSizeOnly(fm, cd) ==
    LET first == fm[1] IN
    [attrs |-> first.attrs,
     dims |-> first.dims,
     coords |-> [c \in DOMAIN first.coords |->
                    DummyArray(first.coords[c].dims, first.coords[c].attrs)],
     variables |-> [x \in DOMAIN first.variables |->
                    DummyArray(first.variables[x].dims, first.variables[x].attrs)]]

CombineLastWins(fm, cd) ==
    LET last == fm[Len(fm)]
        total_concat_size == SumConcatSizes(fm, cd, 1)
    IN  [attrs |-> last.attrs,
         dims |-> [d \in DOMAIN last.dims |->
                      IF d = cd THEN total_concat_size ELSE last.dims[d]],
         coords |-> [c \in DOMAIN last.coords |->
                      DummyArray(last.coords[c].dims, last.coords[c].attrs)],
         variables |-> [x \in DOMAIN last.variables |->
                      DummyArray(last.variables[x].dims, last.variables[x].attrs)]]

\* _combine_file_metadata(file_metadata, concat_dim) on a non-empty list whose
\* records all hold concat_dim: the dataset it builds.
CombineFileMetadata(fm, cd) ==
    LET first == fm[1]
        total_concat_size == SumConcatSizes(fm, cd, 1)
    IN  [attrs |-> first.attrs,
         dims |-> [d \in DOMAIN first.dims |->
                      IF d = cd THEN total_concat_size ELSE first.dims[d]],
         coords |-> [c \in DOMAIN first.coords |->
                      DummyArray(first.coords[c].dims, first.coords[c].attrs)],
         variables |-> [x \in DOMAIN first.variables |->
                      DummyArray(first.variables[x].dims, first.variables[x].attrs)]]

EmptyDataset == [dims |-> <<>>, coords |-> <<>>, variables |-> <<>>, attrs |-> <<>>]

\* sorted(glob.glob(pattern)): the matching paths in lexicographic order.
PathRank(p) ==
    CASE p = "a.nc" -> 1 [] p = "b.nc" -> 2 [] p = "c.nc" -> 3 [] OTHER -> 4

RECURSIVE Sorted(_)
Sorted(S) ==
    IF S = {} THEN <<>>
    ELSE LET m == CHOOSE x \in S : \A y \in S : PathRank(x) <= PathRank(y)
         IN  <<m>> \o Sorted(S \ {m})

GlobPattern(matches) == [kind |-> "glob", matches |-> matches]
PathList(items) == [kind |-> "list", items |-> items]

\* The list of files open_mfdataset reads, in order.
FilePaths(paths) ==
    IF paths.kind = "glob" THEN Sorted(paths.matches) ELSE paths.items

\* _read_file_metadata(filepath, concat_dim) on a file whose content is
\* [dims, coords, t0, variables, attrs]: coords names the dimensions that have a
\* coordinate variable; the concat coordinate, when the file has one, holds the
\* values t0, t0+1, ..., one per step, and its range is (first value, last value).
ReadFileMetadata(filepath, content, cd) ==
    [filepath |-> filepath,
     dims |-> content.dims,
     coords |-> [c \in content.coords |->
                    [dims |-> <<c>>, attrs |-> [axis |-> c]]],
     variables |-> content.variables,
     attrs |-> content.attrs,
     coord_ranges |-> [c \in content.coords \cap {cd} |->
                          <<Num(content.t0), Num(content.t0 + content.dims[c] - 1)>>]]

\* metadata= of the add_file_source call open_mfdataset makes for one record.
SourceMetadata(metadata) ==
    Dict([dims |-> metadata.dims,
          variables |-> VarNamesOf(metadata),
          attrs |-> metadata.attrs])

\* The registrations open_mfdataset makes, as add_file_source arguments.
Registrations(fm, cd) ==
    [i \in 1..Len(fm) |->
        [filepath |-> fm[i].filepath,
         coord_range |-> fm[i].coord_ranges[cd],
         metadata |-> SourceMetadata(fm[i])]]

\* The registry after enable_file_tracking(cd) and the first n registrations.
RECURSIVE RegisterAll(_, _, _)
RegisterAll(regs, cd, n) ==
    IF n = 0 THEN <<>>
    ELSE DictSet(RegisterAll(regs, cd, n - 1), regs[n].filepath,
                 NewEntry(cd, regs[n].filepath, regs[n].coord_range, regs[n].metadata))

\* open_mfdataset(paths, concat_dim), reading each file's content from `read`.
\* On success the dataset and its registry are the ones returned; on an error
\* nothing is returned and the caller keeps what it had.
OpenMfdataset(paths, cd, read) ==
    LET file_paths == FilePaths(paths)
        fm == [i \in 1..Len(file_paths) |->
                  ReadFileMetadata(file_paths[i], read[file_paths[i]], cd)]
    IN  /\ call' = [op |-> "open_mfdataset", paths |-> paths, concat_dim |-> cd]
        /\ IF file_paths = <<>>
           THEN /\ ret' = Raised("ValueError: no files")
                /\ UNCHANGED <<regVars, ds, file_metadata>>
           ELSE /\ file_metadata' = fm
                /\ \E outcome \in ValidateFileCompatibility(fm, cd) :
                     IF outcome.status = "raise"
                     THEN /\ ret' = outcome
                          /\ UNCHANGED <<regVars, ds>>
                     ELSE IF \E i \in 1..Len(fm) : cd \notin DOMAIN fm[i].coord_ranges
                     THEN /\ ret' = Raised("KeyError: coord_ranges")
                          /\ UNCHANGED <<regVars, ds>>
                     ELSE /\ ds' = CombineFileMetadata(fm, cd)
                          /\ file_tracking_enabled' = TRUE
                          /\ concat_dim' = cd
                          /\ file_sources' = RegisterAll(Registrations(fm, cd), cd, Len(fm))
                          /\ ret' = Returned("DummyDataset")

\* A direct call of _validate_file_compatibility on a list of records.
ValidateCall(fm, cd) ==
    /\ call' = [op |-> "validate_file_compatibility", concat_dim |-> cd]
    /\ file_metadata' = fm
    /\ ret' \in ValidateFileCompatibility(fm, cd)
    /\ UNCHANGED <<regVars, ds>>

(***************************************************************************)
(* Inputs of the registry specification                                    *)
(***************************************************************************)
Paths == {"a.nc", "b.nc", "c.nc"}
DimNames == {"time", "lat"}

\* Stored coordinate ranges: the three adjacent numeric ranges, a range with an
\* open bound, a timestamp range, and two ranges whose bounds are of two kinds.
StoredRanges ==
    { <<Num(0), Num(10)>>, <<Num(10), Num(20)>>, <<Num(20), Num(30)>>,
      <<None, Num(10)>>, <<Ts(0), Ts(10)>>, <<Ts(0), Num(3)>>, <<Num(0), Ts(10)>> }

SelBounds == {None, Num(5), Num(10), Num(15), Ts(5)}
Selectors ==
    {Absent} \cup {Slice(a, b) : a \in SelBounds, b \in SelBounds}
             \cup {Value(Num(5)), Value(Num(10))}

KwSelectors == {Slice(Num(5), Num(15)), Slice(None, Num(15)), Absent}
KwArgs ==
    {<<>>} \cup {[d \in {dim} |-> s] : dim \in DimNames, s \in KwSelectors}

\* The calls made: a positional selector alone, keyword selectors alone, and a
\* positional selector together with a keyword selector.
QueryInputs ==
    {<<s, <<>> >> : s \in Selectors}
    \cup {<<Absent, kw>> : kw \in KwArgs}
    \cup {<<Slice(Num(10), Num(15)), kw>> : kw \in KwArgs}

InitOther ==
    /\ ds = EmptyDataset
    /\ calls = <<>>
    /\ file_metadata = <<>>
    /\ start = None /\ end = None /\ group_freq = None
    /\ current = None /\ periods = <<>> /\ pc = "idle"
    /\ heap = <<>> /\ result = <<>>

\* FileTrackerMixin.__init__
InitRegistry ==
    /\ file_tracking_enabled = FALSE
    /\ concat_dim = None
    /\ file_sources = <<>>
    /\ call = NoCall
    /\ ret = NoRet

InitReg == InitRegistry /\ InitOther

RegEnable ==
    /\ \E cd \in DimNames : EnableFileTracking(cd)
    /\ UNCHANGED <<ds, calls, file_metadata, planVars, groupVars>>

RegAdd ==
    /\ \E fp \in Paths, cr \in StoredRanges : AddFileSource(fp, cr, None)
    /\ UNCHANGED <<ds, calls, file_metadata, planVars, groupVars>>

RegQuery ==
    /\ \E q \in QueryInputs : GetSourceFilesCall(q[1], q[2])
    /\ UNCHANGED <<ds, calls, file_metadata, planVars, groupVars>>

NextReg == RegEnable \/ RegAdd \/ RegQuery

SpecReg == InitReg /\ [][NextReg]_vars

(***************************************************************************)
(* Inputs of the open/validate specification                               *)
(***************************************************************************)
MaxRecords == 2
MaxFiles == 2

VarNames == {"A", "B", "C"}
DimTuples == {<<"time", "lat">>, <<"lat", "time">>}

\* Records handed to the validator directly: with or without the time
\* dimension, any set of the three variables, each over either dims tuple.
ValDims == {[d \in {"lat"} |-> 3], [d \in {"time", "lat"} |-> IF d = "time" THEN 2 ELSE 3]}
ValVariables ==
    UNION {[S -> {[dims |-> t, attrs |-> <<>>] : t \in DimTuples}] : S \in SUBSET VarNames}
ValRecords ==
    {[filepath |-> "a.nc", dims |-> d, coords |-> <<>>, variables |-> x,
      attrs |-> <<>>, coord_ranges |-> <<>>] : d \in ValDims, x \in ValVariables}
ValLists == UNION {[1..n -> ValRecords] : n \in 0..MaxRecords}

\* Lists of three records for the order of the checks: a complete record, one
\* without the time dimension, one with another variable set, and one whose
\* variables have other dims tuples.
TieBreakRecords ==
    {[filepath |-> "a.nc", dims |-> d, coords |-> <<>>, variables |-> x,
      attrs |-> <<>>, coord_ranges |-> <<>>] :
        d \in ValDims,
        x \in {[v \in {"A", "B"} |-> [dims |-> <<"time", "lat">>, attrs |-> <<>>]],
               [v \in {"A"} |-> [dims |-> <<"time", "lat">>, attrs |-> <<>>]],
               [v \in {"A", "B"} |-> [dims |-> <<"lat", "time">>, attrs |-> <<>>]]}}
TieBreakLists == [1..3 -> TieBreakRecords]

PathAt(i) == CASE i = 1 -> "a.nc" [] i = 2 -> "b.nc" [] i = 3 -> "c.nc" [] OTHER -> "d.nc"
WithPaths(fm) == [i \in 1..Len(fm) |-> [fm[i] EXCEPT !.filepath = PathAt(i)]]

\* File contents open_mfdataset reads: one or two time steps or no time
\* dimension, one or two variables, two titles, two first coordinate values;
\* and a file whose time dimension has no coordinate variable.
FileDims ==
    {[d \in {"lat"} |-> 3]}
    \cup {[d \in {"time", "lat"} |-> IF d = "time" THEN n ELSE 3] : n \in 1..2}
FileVariables ==
    {[x \in {"A"} |-> [dims |-> <<"time", "lat">>, attrs |-> <<>>]],
     [x \in {"A", "B"} |-> [dims |-> <<"time", "lat">>, attrs |-> <<>>]]}
FileAttrs == {[title |-> "t1"], [title |-> "t2"]}
FileContents ==
    {[dims |-> d, coords |-> DOMAIN d, t0 |-> t, variables |-> x, attrs |-> a] :
        d \in FileDims, t \in {0, 10}, x \in FileVariables, a \in FileAttrs}
    \cup {[dims |-> [d \in {"time", "lat"} |-> IF d = "time" THEN 2 ELSE 3],
           coords |-> {"lat"}, t0 |-> 0,
           variables |-> [x \in {"A"} |-> [dims |-> <<"time", "lat">>, attrs |-> <<>>]],
           attrs |-> [title |-> "t1"]]}

Range(s) == {s[i] : i \in 1..Len(s)}
PathLists == UNION {[1..n -> Paths] : n \in 0..MaxFiles}
PathInputs ==
    {PathList(l) : l \in PathLists}
    \cup {GlobPattern(S) : S \in {T \in SUBSET Paths : Cardinality(T) <= MaxFiles}}

InitOpen == InitRegistry /\ InitOther

OpenValidate ==
    /\ call = NoCall
    /\ \E fm \in ValLists \cup TieBreakLists, cd \in DimNames :
          ValidateCall(WithPaths(fm), cd)
    /\ UNCHANGED <<calls, planVars, groupVars>>

OpenOpen ==
    /\ call = NoCall
    /\ \E paths \in PathInputs :
          \E read \in [Range(FilePaths(paths)) -> FileContents] :
             OpenMfdataset(paths, "time", read)
    /\ UNCHANGED <<calls, planVars, groupVars>>

\* Numeric range queries on the dataset open_mfdataset returned.
OpenSlices ==
    {Slice(Num(0), Num(1)), Slice(Num(1), Num(2)), Slice(Num(1), Num(10)),
     Slice(Num(10), Num(11)), Slice(Num(11), Num(12)), Slice(Num(0), Num(12))}

OpenQuery ==
    /\ call.op = "open_mfdataset" /\ ret.status = "ok"
    /\ \E s \in OpenSlices : GetSourceFilesCall(s, <<>>)
    /\ UNCHANGED <<ds, calls, file_metadata, planVars, groupVars>>

NextOpen == OpenValidate \/ OpenOpen \/ OpenQuery

SpecOpen == InitOpen /\ [][NextOpen]_vars

(***************************************************************************)
(* Inputs of the merge specification                                       *)
(***************************************************************************)
\* Validation followed by the merge, as open_mfdataset runs them on the
\* records it has read.
ValidateAndCombine(fm, cd) ==
    /\ call' = [op |-> "combine_file_metadata", concat_dim |-> cd]
    /\ file_metadata' = fm
    /\ \E outcome \in ValidateFileCompatibility(fm, cd) :
          IF outcome.status = "raise"
          THEN ret' = outcome /\ UNCHANGED ds
          ELSE /\ ds' = CombineFileMetadata(fm, cd)
               /\ ret' = Returned("DummyDataset")
    /\ UNCHANGED regVars

\* Per-file records: one or two time steps, lat of size 3 or 4, variables
\* {A} or {A, B}, and two variants of everything the merge copies from the
\* first record (global attrs, coordinates, variable attrs).
MergeAttrs(variant) ==
    IF variant = 1 THEN [title |-> "t1"] ELSE [title |-> "t2", history |-> "h"]
MergeCoords(variant) ==
    IF variant = 1
    THEN [c \in {"time"} |-> [dims |-> <<"time">>, attrs |-> [units |-> "days"]]]
    ELSE [c \in {"time", "lat"} |-> [dims |-> <<c>>, attrs |-> [units |-> "hours"]]]
MergeVariables(names, variant) ==
    [x \in names |->
        [dims |-> <<"time", "lat">>,
         attrs |-> IF variant = 1 THEN [units |-> "K"] ELSE <<>>]]
MergeRecords ==
    {[filepath |-> "a.nc",
      dims |-> [d \in {"time", "lat"} |-> IF d = "time" THEN k ELSE n],
      coords |-> MergeCoords(variant),
      variables |-> MergeVariables(names, variant),
      attrs |-> MergeAttrs(variant),
      coord_ranges |-> <<>>] :
        k \in 1..2, n \in 3..4, variant \in 1..2, names \in {{"A"}, {"A", "B"}}}
MergeLists == UNION {[1..n -> MergeRecords] : n \in 1..MaxRecords}

InitMerge == InitRegistry /\ InitOther

MergeCall ==
    /\ call = NoCall
    /\ \E fm \in MergeLists : ValidateAndCombine(WithPaths(fm), "time")
    /\ UNCHANGED <<calls, planVars, groupVars>>

NextMerge == MergeCall

SpecMerge == InitMerge /\ [][NextMerge]_vars

(***************************************************************************)
(* The registry with the history of its registrations                      *)
(***************************************************************************)
MaxCalls == 3

LogRanges == {<<Num(0), Num(10)>>, <<Num(10), Num(20)>>}
LogMetadata == {None, Dict([institution |-> "DKRZ"])}
LogQueries ==
    {<<Absent, <<>> >>, <<Absent, [d \in {"time"} |-> Absent]>>,
     <<Absent, [d \in {"lat"} |-> Slice(Num(5), Num(15))]>>}

\* The files on disk for the opens of this specification: alike but for the
\* values of their time coordinate.
Disk ==
    [p \in Paths |->
        [dims |-> [d \in {"time", "lat"} |-> IF d = "time" THEN 1 ELSE 3],
         coords |-> {"time", "lat"}, t0 |-> 10 * PathRank(p),
         variables |-> [x \in {"A"} |-> [dims |-> <<"time", "lat">>, attrs |-> <<>>]],
         attrs |-> [title |-> "t1"]]]

LogPaths == {"a.nc", "b.nc"}

InitLog == InitRegistry /\ InitOther

LogEnable ==
    /\ \E cd \in DimNames : EnableFileTracking(cd)
    /\ calls' = <<>>
    /\ UNCHANGED <<ds, file_metadata, planVars, groupVars>>

LogAdd ==
    /\ Len(calls) < MaxCalls
    /\ \E fp \in LogPaths, cr \in LogRanges, md \in LogMetadata :
          /\ AddFileSource(fp, cr, md)
          /\ calls' = IF file_tracking_enabled
                      THEN Append(calls, [filepath |-> fp, coord_range |-> cr,
                                          metadata |-> md])
                      ELSE calls
    /\ UNCHANGED <<ds, file_metadata, planVars, groupVars>>

LogQuery ==
    /\ \E q \in LogQueries : GetSourceFilesCall(q[1], q[2])
    /\ UNCHANGED <<ds, calls, file_metadata, planVars, groupVars>>

LogOpen ==
    /\ call = NoCall
    /\ \E paths \in PathInputs : OpenMfdataset(paths, "time", Disk)
    /\ calls' = IF ret'.status = "ok"
                THEN Registrations(file_metadata', "time")
                ELSE calls
    /\ UNCHANGED <<planVars, groupVars>>

NextLog == LogEnable \/ LogAdd \/ LogQuery \/ LogOpen

SpecLog == InitLog /\ [][NextLog]_vars

(***************************************************************************)
(* time_utils.py: create_time_periods                                      *)
(***************************************************************************)
\* A datetime of the standard calendar.  micro is 0 or 1: whether the
\* microsecond field is non-zero.
DateTimeOf(y, m, d, h, mi, s, us) ==
    [year |-> y, month |-> m, day |-> d, hour |-> h, minute |-> mi, second |-> s,
     micro |-> us]
DateTime(y, m, d, h, us) == DateTimeOf(y, m, d, h, 0, 0, us)

IsLeap(y) == y % 4 = 0 /\ (y % 100 # 0 \/ y % 400 = 0)
DaysInMonth(y, m) ==
    IF m = 2 THEN (IF IsLeap(y) THEN 29 ELSE 28)
    ELSE IF m \in {4, 6, 9, 11} THEN 30 ELSE 31

\* Leap years before year y, and the days from 2000-01-01 to y-01-01 (y >= 2000).
LeapsBefore(y) == (y - 1) \div 4 - (y - 1) \div 100 + (y - 1) \div 400
DaysBeforeYear(y) == 365 * (y - 2000) + LeapsBefore(y) - LeapsBefore(2000)

RECURSIVE DaysBeforeMonth(_, _)
DaysBeforeMonth(y, m) == IF m <= 1 THEN 0 ELSE DaysBeforeMonth(y, m - 1) + DaysInMonth(y, m - 1)

\* Days from 2000-01-01 to the date.
DayNumber(t) == DaysBeforeYear(t.year) + DaysBeforeMonth(t.year, t.month) + t.day - 1

SecondOfDay(t) == t.hour * 3600 + t.minute * 60 + t.second

\* Whole seconds from 2000-01-01 00:00:00 to the datetime.
Seconds(t) == DayNumber(t) * 86400 + SecondOfDay(t)

\* The instant as one number, the sub-second part last: datetimes compare as
\* these numbers do.
Stamp(t) == Seconds(t) * 2 + t.micro

RECURSIVE YearOfDay(_, _)
YearOfDay(n, y) == IF n < DaysBeforeYear(y + 1) THEN y ELSE YearOfDay(n, y + 1)

RECURSIVE MonthOfDay(_, _, _)
MonthOfDay(n, y, m) ==
    IF n < DaysBeforeMonth(y, m + 1) THEN m ELSE MonthOfDay(n, y, m + 1)

\* The datetime that is total whole seconds after 2000-01-01 00:00:00.
FromSeconds(total, us) ==
    LET n == total \div 86400
        sod == total % 86400
        y == YearOfDay(n, 2000 + n \div 366)
        r == n - DaysBeforeYear(y)
        m == MonthOfDay(r, y, 1)
    IN  DateTimeOf(y, m, r - DaysBeforeMonth(y, m) + 1,
                   sod \div 3600, (sod % 3600) \div 60, sod % 60, us)

\* t + timedelta(seconds=n), for results not before 2000-01-01.
AddSeconds(t, n) == FromSeconds(Seconds(t) + n, t.micro)

\* t + timedelta(hours=n)
AddHours(t, n) == AddSeconds(t, n * 3600)

\* t + timedelta(days=n)
AddDays(t, n) == AddSeconds(t, n * 86400)

\* cftime.datetime(year, month, day, hour, minute, second): the microsecond is
\* not passed on; a day the month does not have raises ValueError.
MakeDateTime(y, m, d, h, mi, sec) ==
    IF d <= DaysInMonth(y, m)
    THEN Returned(DateTimeOf(y, m, d, h, mi, sec, 0))
    ELSE Raised("ValueError: invalid day for month")

PeriodEndFixedDays(cur, gf) ==
    LET n == gf[1] IN
    IF gf[2] = "Y" THEN Returned(AddDays(cur, 365 * n))
    ELSE IF gf[2] = "M" THEN Returned(AddDays(cur, 30 * n))
    ELSE IF gf[2] = "D" THEN Returned(AddDays(cur, n))
    ELSE IF gf[2] = "H" THEN Returned(AddHours(cur, n))
    ELSE Raised("ValueError: Unsupported grouping frequency")

\* group_freq is <<multiplier, suffix>>: int(group_freq[:-1]) and the last
\* character.  The period end computed from current, before clipping.
PeriodEnd(cur, gf) ==
    LET n == gf[1] IN
    IF gf[2] = "Y"
    THEN MakeDateTime(cur.year + n, cur.month, cur.day,
                      cur.hour, cur.minute, cur.second)
    ELSE IF gf[2] = "M"
    THEN LET new_month == cur.month + n
             new_year == cur.year + (new_month - 1) \div 12
         IN  MakeDateTime(new_year, ((new_month - 1) % 12) + 1, cur.day,
                          cur.hour, cur.minute, cur.second)
    ELSE IF gf[2] = "D" THEN Returned(AddDays(cur, n))
    ELSE IF gf[2] = "H" THEN Returned(AddHours(cur, n))
    ELSE Raised("ValueError: Unsupported grouping frequency")

ClipNever(period_end, e) == period_end

\* if period_end > end: period_end = end
Clip(period_end, e) == IF Stamp(period_end) > Stamp(e) THEN e ELSE period_end

MaxPeriods == 12

\* create_time_periods(start, end, group_freq): entry into the function.
CreateTimePeriodsCall(s, e, gf) ==
    /\ pc = "idle"
    /\ start' = s /\ end' = e /\ group_freq' = gf
    /\ current' = s
    /\ periods' = <<>>
    /\ pc' = "loop"
    /\ call' = [op |-> "create_time_periods"]
    /\ ret' = NoRet

\* One iteration of `while current < end`.
LoopIteration ==
    /\ pc = "loop"
    /\ Stamp(current) < Stamp(end)
    /\ Len(periods) < MaxPeriods
    /\ LET pe == PeriodEnd(current, group_freq) IN
       IF pe.status = "raise"
       THEN /\ pc' = "raised"
            /\ ret' = pe
            /\ UNCHANGED <<current, periods>>
       ELSE /\ periods' = Append(periods, <<current, Clip(pe.value, end)>>)
            /\ current' = Clip(pe.value, end)
            /\ UNCHANGED <<pc, ret>>
    /\ UNCHANGED <<start, end, group_freq, call>>

\* The loop condition fails: return periods.
ReturnPeriods ==
    /\ pc = "loop"
    /\ ~(Stamp(current) < Stamp(end))
    /\ pc' = "done"
    /\ ret' = Returned(periods)
    /\ UNCHANGED <<start, end, group_freq, current, periods, call>>

(***************************************************************************)
(* Inputs of the planner specification                                     *)
(***************************************************************************)
\* Starts and ends: the first day, the 29th and the 31st of January,
\* February, March and December of a leap year and of the year after it, at
\* midnight; some of them at noon or with a microsecond part; and the two
\* far ends 2005-06-15 and 2030-01-01.
PlanDates ==
    {DateTime(y, m, d, 0, 0) : y \in {2000, 2001}, m \in {1, 2, 3, 12}, d \in {1, 29, 31}}
    \cup {DateTime(2000, 1, 31, 12, 0), DateTime(2000, 2, 29, 12, 0),
          DateTime(2001, 12, 31, 12, 0),
          DateTimeOf(2000, 1, 31, 23, 59, 59, 0), DateTimeOf(2001, 1, 1, 6, 30, 15, 0),
          DateTime(2000, 1, 1, 0, 1), DateTime(2001, 3, 31, 12, 1)}
ValidDates == {t \in PlanDates : t.day <= DaysInMonth(t.year, t.month)}
FarEnds == {DateTime(2005, 6, 15, 0, 0), DateTime(2030, 1, 1, 0, 0)}

GroupFreqs ==
    {<<1, "Y">>, <<10, "Y">>, <<1, "M">>, <<3, "M">>, <<14, "M">>,
     <<30, "D">>, <<366, "D">>, <<36, "H">>, <<1, "W">>,
     <<0, "D">>, <<0, "M">>, <<-1, "H">>}

InitPlan == InitRegistry /\ InitOther

PlanCall ==
    /\ \E s \in ValidDates, e \in ValidDates \cup FarEnds, gf \in GroupFreqs :
          CreateTimePeriodsCall(s, e, gf)
    /\ UNCHANGED <<regVars, ds, calls, file_metadata, groupVars>>

PlanLoop == LoopIteration /\ UNCHANGED <<regVars, ds, calls, file_metadata, groupVars>>

PlanReturn == ReturnPeriods /\ UNCHANGED <<regVars, ds, calls, file_metadata, groupVars>>

NextPlan == PlanCall \/ PlanLoop \/ PlanReturn

SpecPlan == InitPlan /\ [][NextPlan]_vars

(***************************************************************************)
(* time_utils.py: infer_time_frequency                                     *)
(***************************************************************************)
\* A frequency string such as "3H": multiplier and suffix.
Freq(n, u) == [k |-> "freq", n |-> n, unit |-> u]

\* Milliseconds in one unit of a CF units string "<unit> since <date>";
\* 0 for a unit cftime.num2date does not accept.
MsPer(unit) ==
    CASE unit = "milliseconds" -> 1
      [] unit = "seconds" -> 1000
      [] unit = "minutes" -> 60000
      [] unit = "hours" -> 3600000
      [] unit = "days" -> 86400000
      [] OTHER -> 0

Min(a, b) == IF a < b THEN a ELSE b
Abs(x) == IF x < 0 THEN -x ELSE x

\* cftime.num2date(coord_values[:sample_size], units, ...): the sampled times,
\* in milliseconds since the reference date.
SampleTimes(coord_values, unit) ==
    [i \in 1..Min(10, Len(coord_values)) |-> coord_values[i] * MsPer(unit)]

\* deltas between consecutive sampled times.
Deltas(times) == [i \in 1..(Len(times) - 1) |-> times[i + 1] - times[i]]

\* The frequency string for a delta of ms milliseconds.
FrequencyString(ms) ==
    IF ms % 3600000 = 0
    THEN LET hours == ms \div 3600000 IN
         IF hours = 24 THEN Freq(1, "D") ELSE Freq(hours, "H")
    ELSE IF ms % 86400000 = 0 THEN Freq(ms \div 86400000, "D")
    ELSE IF ms % 60000 = 0 THEN Freq(ms \div 60000, "T")
    ELSE IF ms % 1000 = 0 THEN Freq(ms \div 1000, "S")
    ELSE None

\* Every delta after the first is within one second of the first.
Consistent(deltas) ==
    \A i \in 2..Len(deltas) : Abs(deltas[i] - deltas[1]) <= 1000

\* infer_time_frequency(coord_values, units)
InferTimeFrequency(coord_values, unit) ==
    IF Len(coord_values) < 2 THEN None
    ELSE IF MsPer(unit) = 0 THEN None
    ELSE LET deltas == Deltas(SampleTimes(coord_values, unit)) IN
         IF ~Consistent(deltas) THEN None
         ELSE FrequencyString(deltas[1])

InferTimeFrequencyCall(coord_values, unit) ==
    /\ call' = [op |-> "infer_time_frequency", coord_values |-> coord_values,
                units |-> unit]
    /\ ret' = Returned(InferTimeFrequency(coord_values, unit))

(***************************************************************************)
(* Inputs of the frequency specification                                   *)
(***************************************************************************)
\* A series of n values start, start + step, ..., with the value at position
\* p moved by a (no value moved when p is 0 or beyond n).
Series(n, step, p, a) ==
    [i \in 1..n |-> (i - 1) * step + (IF i = p THEN a ELSE 0)]

SeriesLengths == {0, 1, 2, 3, 4, 10, 12}
SeriesSteps ==
    {<<"seconds", 3600>>, <<"seconds", 1>>, <<"seconds", 90>>, <<"seconds", 60>>,
     <<"seconds", 900>>, <<"seconds", 0>>, <<"seconds", -3600>>,
     <<"hours", 1>>, <<"hours", 3>>, <<"hours", 24>>, <<"hours", 48>>, <<"hours", 36>>,
     <<"days", 1>>, <<"days", 2>>, <<"milliseconds", 1500>>, <<"milliseconds", 1000>>,
     <<"fortnights", 1>>}
Perturbations == {-2, -1, 1, 2}

InitInfer == InitRegistry /\ InitOther

InferRegular ==
    /\ call = NoCall
    /\ \E n \in SeriesLengths, us \in SeriesSteps :
          InferTimeFrequencyCall(Series(n, us[2], 0, 0), us[1])
    /\ UNCHANGED <<regVars, ds, calls, file_metadata, planVars, groupVars>>

InferPerturbed ==
    /\ call = NoCall
    /\ \E n \in SeriesLengths \ {0}, us \in SeriesSteps, p \in 1..12, a \in Perturbations :
          /\ p <= n
          /\ InferTimeFrequencyCall(Series(n, us[2], p, a), us[1])
    /\ UNCHANGED <<regVars, ds, calls, file_metadata, planVars, groupVars>>

NextInfer == InferRegular \/ InferPerturbed

SpecInfer == InitInfer /\ [][NextInfer]_vars

(***************************************************************************)
(* time_utils.py: count_timesteps, add_frequency; the whole planning loop  *)
(***************************************************************************)
\* int(x / d) for integers x and d # 0: the quotient truncated towards zero.
TruncDiv(x, d) ==
    IF (x >= 0) = (d > 0) THEN Abs(x) \div Abs(d) ELSE -(Abs(x) \div Abs(d))

\* Seconds in one step of the frequency suffix count_timesteps accepts.
UnitSeconds(u) ==
    CASE u = "H" -> 3600 [] u = "D" -> 86400 [] u = "T" -> 60 [] u = "S" -> 1
      [] OTHER -> 0

CountTimestepsRoundUp(s, e, freq) ==
    IF freq.unit \notin {"H", "D", "T", "S"}
    THEN Raised("ValueError: Unsupported frequency")
    ELSE IF freq.n = 0 THEN Raised("ZeroDivisionError")
    ELSE LET d == 2 * freq.n * UnitSeconds(freq.unit)
             x == Stamp(e) - Stamp(s)
         IN  Returned(IF x % d = 0 THEN TruncDiv(x, d) ELSE TruncDiv(x, d) + 1)

\* count_timesteps(start, end, freq): (end - start).total_seconds() divided by
\* the step and truncated.  Stamp counts half seconds.
CountTimesteps(s, e, freq) ==
    IF freq.unit \notin {"H", "D", "T", "S"}
    THEN Raised("ValueError: Unsupported frequency")
    ELSE IF freq.n = 0 THEN Raised("ZeroDivisionError")
    ELSE Returned(TruncDiv(Stamp(e) - Stamp(s), 2 * freq.n * UnitSeconds(freq.unit)))

\* add_frequency(start_date, freq, n_steps), n_steps >= 0 and freq.n >= 0.
\* int(365.25 * k) is 365k + k div 4; int(30.44 * k) is 30k + 44k div 100.
AddFrequency(start_date, freq, n_steps) ==
    LET k == freq.n * n_steps IN
    IF freq.unit \in {"H", "D", "T", "S"}
    THEN Returned(AddSeconds(start_date, k * UnitSeconds(freq.unit)))
    ELSE IF freq.unit = "Y" THEN Returned(AddDays(start_date, 365 * k + k \div 4))
    ELSE IF freq.unit = "M" THEN Returned(AddDays(start_date, 30 * k + (44 * k) \div 100))
    ELSE Raised("ValueError: Unsupported frequency")

\* The loop of create_time_periods from the given position to its end, for a
\* positive multiplier: the list returned, or the error raised.
RECURSIVE CreateTimePeriodsFrom(_, _, _, _)
CreateTimePeriodsFrom(cur, e, gf, acc) ==
    IF ~(Stamp(cur) < Stamp(e)) THEN Returned(acc)
    ELSE LET pe == PeriodEnd(cur, gf) IN
         IF pe.status = "raise" THEN pe
         ELSE CreateTimePeriodsFrom(Clip(pe.value, e), e, gf,
                                    Append(acc, <<cur, Clip(pe.value, e)>>))

\* create_time_periods(start, end, group_freq, calendar)
CreateTimePeriods(s, e, gf) == CreateTimePeriodsFrom(s, e, gf, <<>>)

(***************************************************************************)
(* mfdataset.py: groupby_time_impl, _create_time_subset_metadata           *)
(*                                                                         *)
(* Here the attrs dicts of a dataset and the metadata dicts of its         *)
(* registry entries are objects of heap, named by identity, so that two    *)
(* datasets can hold the same dict.  ObjId(0, ...) are the parent's        *)
(* objects, ObjId(i, ...) those created for the i-th group.                *)
(***************************************************************************)
ObjId(owner, kind, name) == [owner |-> owner, kind |-> kind, name |-> name]

EmptyAttrs == [k \in {} |-> 0]
IsEmptyDict(d) == DOMAIN d = {}

\* d[key] = value on a dict.
DictUpdate(d, key, value) ==
    [k \in DOMAIN d \cup {key} |-> IF k = key THEN value ELSE d[k]]

\* A date as the text "YYYY-MM-DD HH:MM:SS": its six numbers.  Formatting
\* drops the microsecond; num2date(0, units) reads the text back.
FormatDate(t) == <<t.year, t.month, t.day, t.hour, t.minute, t.second>>
ParseDate(str) == DateTimeOf(str[1], str[2], str[3], str[4], str[5], str[6], 0)

\* A CF units string "<unit> since <date>".
Units(unit, since) == [unit |-> unit, since |-> since]

TimeUnitAlwaysDays(freq) == "days"

\* The unit of the rewritten units attribute, from the stored frequency.
TimeUnit(freq) == IF freq.unit \in {"H", "T", "S"} THEN "hours" ELSE "days"

\* coord_info.attrs.copy(), with units rewritten for the grouping coordinate
\* when normalize_units is set.
SubsetCoordAttrs(attrs, coord_name, s, dim, freq, normalize_units) ==
    IF coord_name = dim /\ normalize_units
    THEN DictUpdate(attrs, "units", Units(TimeUnit(freq), FormatDate(s)))
    ELSE attrs

\* DummyArray(dims, attrs): `self.attrs = attrs or {}` keeps the dict passed
\* unless it is empty; own is the identity of the fresh dict otherwise.
ArrayAttrs(h, attrs, own) == IF IsEmptyDict(h[attrs]) THEN own ELSE attrs

SubsetSourcesNone(h, sources, dim, i) == <<>>

\* The entries add_file_source stores in the group's registry, one per
\* parent entry: `metadata or {}` keeps the parent's dict unless it is empty.
SubsetSources(h, sources, dim, i) ==
    [j \in 1..Len(sources) |->
        [filepath |-> sources[j].filepath,
         coord_range |-> sources[j].coord_range,
         concat_dim |-> dim,
         metadata |-> IF IsEmptyDict(h[sources[j].metadata])
                      THEN ObjId(i, "metadata", sources[j].filepath)
                      ELSE sources[j].metadata]]

\* The i-th group as a dataset, given its time_steps.
SubsetDataset(h, p, enabled, sources, i, time_steps, dim) ==
    [attrs |-> ObjId(i, "attrs", ""),
     dims |-> [d \in DOMAIN p.dims |-> IF d = dim THEN time_steps ELSE p.dims[d]],
     coords |-> [c \in DOMAIN p.coords |->
                    [dims |-> p.coords[c].dims, attrs |-> ObjId(i, "coord", c)]],
     variables |-> [x \in DOMAIN p.variables |->
                    [dims |-> p.variables[x].dims,
                     attrs |-> ArrayAttrs(h, p.variables[x].attrs, ObjId(i, "var", x))]],
     file_tracking_enabled |-> enabled,
     concat_dim |-> IF enabled THEN dim ELSE None,
     file_sources |-> IF enabled THEN SubsetSources(h, sources, dim, i) ELSE <<>>]

\* The dicts created for the i-th group: its global attrs, one attrs copy per
\* coordinate, and an empty dict wherever `or {}` replaces an empty one.
SubsetObjects(h, p, enabled, sources, i, s, dim, freq, normalize_units) ==
    LET ids == {ObjId(i, "attrs", "")}
               \cup {ObjId(i, "coord", c) : c \in DOMAIN p.coords}
               \cup {ObjId(i, "var", x) :
                        x \in {v \in DOMAIN p.variables :
                                  IsEmptyDict(h[p.variables[v].attrs])}}
               \cup {ObjId(i, "metadata", sources[j].filepath) :
                        j \in {k \in 1..Len(sources) :
                                  enabled /\ IsEmptyDict(h[sources[k].metadata])}}
        content(id) ==
            IF id.kind = "attrs" THEN h[p.attrs]
            ELSE IF id.kind = "coord"
            THEN SubsetCoordAttrs(h[p.coords[id.name].attrs], id.name, s, dim, freq,
                                  normalize_units)
            ELSE EmptyAttrs
    IN  [id \in ids |-> content(id)]

\* The heap with the objects of objs added.
Allocate(h, objs) ==
    [id \in DOMAIN h \cup DOMAIN objs |-> IF id \in DOMAIN objs THEN objs[id] ELSE h[id]]

\* _create_time_subset_metadata(ds, start, end, dim, freq, calendar,
\* normalize_units) for the i-th period: the new heap and the group.
CreateTimeSubsetMetadata(h, p, enabled, sources, i, s, e, dim, freq, normalize_units) ==
    LET time_steps == CountTimesteps(s, e, freq) IN
    IF time_steps.status = "raise" THEN time_steps
    ELSE Returned([heap |-> Allocate(h, SubsetObjects(h, p, enabled, sources, i, s, dim,
                                                     freq, normalize_units)),
                   ds |-> SubsetDataset(h, p, enabled, sources, i, time_steps.value, dim)])

\* The loop of groupby_time_impl over periods, from the i-th on.
RECURSIVE BuildGroups(_, _, _, _, _, _, _, _, _, _)
BuildGroups(h, p, enabled, sources, ps, i, dim, freq, normalize_units, acc) ==
    IF i > Len(ps) THEN Returned([heap |-> h, result |-> acc])
    ELSE LET g == CreateTimeSubsetMetadata(h, p, enabled, sources, i, ps[i][1], ps[i][2],
                                           dim, freq, normalize_units)
         IN  IF g.status = "raise" THEN g
             ELSE BuildGroups(g.value.heap, p, enabled, sources, ps, i + 1, dim, freq,
                              normalize_units, Append(acc, g.value.ds))

GroupbyTimeDefaultFrequency(h, p, enabled, sources, freq, dim, normalize_units) ==
    IF dim \notin DOMAIN p.dims THEN Raised("ValueError: dimension not found")
    ELSE IF dim \notin DOMAIN p.coords THEN Raised("ValueError: coordinate not found")
    ELSE LET attrs == h[p.coords[dim].attrs] IN
         IF "units" \notin DOMAIN attrs THEN Raised("ValueError: no units attribute")
         ELSE IF "frequency" \notin DOMAIN attrs
         THEN Returned([heap |-> h, result |-> <<>>])
         ELSE LET ref_date == ParseDate(attrs.units.since)
                  end_date == AddFrequency(ref_date, attrs.frequency, p.dims[dim])
              IN  IF end_date.status = "raise" THEN end_date
                  ELSE LET ps == CreateTimePeriods(ref_date, end_date.value, freq) IN
                       IF ps.status = "raise" THEN ps
                       ELSE BuildGroups(h, p, enabled, sources, ps.value, 1, dim,
                                        attrs.frequency, normalize_units, <<>>)

\* groupby_time_impl(ds, freq, dim, normalize_units)
GroupbyTimeImpl(h, p, enabled, sources, freq, dim, normalize_units) ==
    IF dim \notin DOMAIN p.dims THEN Raised("ValueError: dimension not found")
    ELSE IF dim \notin DOMAIN p.coords THEN Raised("ValueError: coordinate not found")
    ELSE LET attrs == h[p.coords[dim].attrs] IN
         IF "units" \notin DOMAIN attrs THEN Raised("ValueError: no units attribute")
         ELSE IF "frequency" \notin DOMAIN attrs
         THEN Raised("ValueError: no frequency attribute")
         ELSE LET ref_date == ParseDate(attrs.units.since)
                  end_date == AddFrequency(ref_date, attrs.frequency, p.dims[dim])
              IN  IF end_date.status = "raise" THEN end_date
                  ELSE LET ps == CreateTimePeriods(ref_date, end_date.value, freq) IN
                       IF ps.status = "raise" THEN ps
                       ELSE BuildGroups(h, p, enabled, sources, ps.value, 1, dim,
                                        attrs.frequency, normalize_units, <<>>)

\* ds.groupby_time(freq, dim, normalize_units)
GroupbyTime(freq, dim, normalize_units) ==
    /\ call' = [op |-> "groupby_time", freq |-> freq, dim |-> dim,
                normalize_units |-> normalize_units]
    /\ LET r == GroupbyTimeImpl(heap, ds, file_tracking_enabled, file_sources, freq, dim,
                                normalize_units)
       IN  IF r.status = "raise"
           THEN ret' = r /\ UNCHANGED <<heap, result>>
           ELSE /\ heap' = r.value.heap
                /\ result' = r.value.result
                /\ ret' = Returned("groups")
    /\ UNCHANGED <<regVars, ds>>

\* The dataset numbered t: 0 is the parent, i >= 1 the i-th group.
DatasetAt(t) ==
    IF t = 0
    THEN [attrs |-> ds.attrs, dims |-> ds.dims, coords |-> ds.coords,
          variables |-> ds.variables,
          file_tracking_enabled |-> file_tracking_enabled,
          concat_dim |-> concat_dim, file_sources |-> file_sources]
    ELSE result[t]

\* Dataset t with one field replaced.
SetDataset(t, field, value) ==
    IF t = 0
    THEN /\ ds' = (IF field \in DOMAIN ds THEN [ds EXCEPT ![field] = value] ELSE ds)
         /\ file_sources' = (IF field = "file_sources" THEN value ELSE file_sources)
         /\ UNCHANGED <<file_tracking_enabled, concat_dim, result>>
    ELSE /\ result' = [result EXCEPT ![t] = [@ EXCEPT ![field] = value]]
         /\ UNCHANGED <<ds, regVars>>

\* dict[key] = value on the dict object id.
UpdateObject(id, key, value) == heap' = [heap EXCEPT ![id] = DictUpdate(@, key, value)]

\* datasets[t].variables[name].assign_attrs(key=value)
AssignVariableAttrs(t, name, key, value) ==
    /\ name \in DOMAIN DatasetAt(t).variables
    /\ call' = [op |-> "variable.assign_attrs", target |-> t]
    /\ ret' = Returned("self")
    /\ UpdateObject(DatasetAt(t).variables[name].attrs, key, value)
    /\ UNCHANGED <<ds, regVars, result>>

\* datasets[t].coords[name].assign_attrs(key=value)
AssignCoordAttrs(t, name, key, value) ==
    /\ name \in DOMAIN DatasetAt(t).coords
    /\ call' = [op |-> "coord.assign_attrs", target |-> t]
    /\ ret' = Returned("self")
    /\ UpdateObject(DatasetAt(t).coords[name].attrs, key, value)
    /\ UNCHANGED <<ds, regVars, result>>

\* datasets[t].assign_attrs(key=value)
AssignAttrs(t, key, value) ==
    /\ call' = [op |-> "assign_attrs", target |-> t]
    /\ ret' = Returned("self")
    /\ UpdateObject(DatasetAt(t).attrs, key, value)
    /\ UNCHANGED <<ds, regVars, result>>

\* datasets[t].add_dim(name, size)
AddDim(t, name, size) ==
    /\ call' = [op |-> "add_dim", target |-> t]
    /\ ret' = Returned(None)
    /\ SetDataset(t, "dims", DictUpdate(DatasetAt(t).dims, name, size))
    /\ UNCHANGED heap

\* datasets[t].get_file_info(filepath)["metadata"][key] = value: the copy
\* get_file_info returns holds the entry's own metadata dict.
SetFileInfoMetadata(t, filepath, key, value) ==
    /\ DatasetAt(t).file_tracking_enabled
    /\ HasKey(DatasetAt(t).file_sources, filepath)
    /\ call' = [op |-> "get_file_info.metadata", target |-> t]
    /\ ret' = Returned(None)
    /\ UpdateObject(Lookup(DatasetAt(t).file_sources, filepath).metadata, key, value)
    /\ UNCHANGED <<ds, regVars, result>>

\* datasets[t].add_file_source(filepath, coord_range) on an enabled registry,
\* without metadata: the entry gets a new empty metadata dict.
ReRegister(t, filepath, coord_range) ==
    /\ DatasetAt(t).file_tracking_enabled
    /\ call' = [op |-> "add_file_source", target |-> t]
    /\ ret' = Returned(None)
    /\ heap' = Allocate(heap, [id \in {ObjId(t, "metadata2", filepath)} |-> EmptyAttrs])
    /\ SetDataset(t, "file_sources",
                  DictSet(DatasetAt(t).file_sources, filepath,
                          [filepath |-> filepath, coord_range |-> coord_range,
                           concat_dim |-> DatasetAt(t).concat_dim,
                           metadata |-> ObjId(t, "metadata2", filepath)]))

(***************************************************************************)
(* Inputs of the grouping specification                                    *)
(***************************************************************************)
\* The stored units, reference date and frequency of the time coordinate.
StoredTimes ==
    {[unit |-> "days", since |-> <<2000, 1, 1, 0, 0, 0>>, frequency |-> Freq(1, "D")],
     [unit |-> "hours", since |-> <<2000, 1, 15, 6, 0, 0>>, frequency |-> Freq(6, "H")],
     [unit |-> "minutes", since |-> <<2000, 1, 1, 0, 0, 0>>, frequency |-> Freq(90, "T")],
     [unit |-> "seconds", since |-> <<2000, 2, 28, 23, 59, 30>>, frequency |-> Freq(45, "S")],
     [unit |-> "days", since |-> <<2000, 1, 1, 0, 0, 0>>, frequency |-> Freq(1, "M")],
     [unit |-> "hours", since |-> <<2000, 1, 1, 0, 0, 0>>, frequency |-> Freq(0, "H")]}

\* The attrs of the time coordinate: complete, without frequency, without units.
TimeAttrs(st) ==
    {[units |-> Units(st.unit, st.since), frequency |-> st.frequency, axis |-> "T"],
     [units |-> Units(st.unit, st.since), axis |-> "T"],
     [frequency |-> st.frequency, axis |-> "T"]}

TimeSizes == {0, 3, 30}

GroupingFreqs == {<<1, "M">>, <<10, "D">>, <<100, "H">>, <<1, "Y">>, <<1, "W">>}

\* The parent: dims time, lat and level, coordinates time and lat, a variable with
\* attrs and one without, and, when tracking is enabled, a source with
\* metadata and one without.
ParentDataset(size) ==
    [attrs |-> ObjId(0, "attrs", ""),
     dims |-> [time |-> size, lat |-> 2, level |-> 4],
     coords |-> [time |-> [dims |-> <<"time">>, attrs |-> ObjId(0, "coord", "time")],
                 lat |-> [dims |-> <<"lat">>, attrs |-> ObjId(0, "coord", "lat")]],
     variables |-> [temperature |-> [dims |-> <<"time", "lat">>,
                                     attrs |-> ObjId(0, "var", "temperature")],
                    mask |-> [dims |-> <<"lat">>, attrs |-> ObjId(0, "var", "mask")]]]

ParentSources ==
    << [filepath |-> "a.nc", coord_range |-> <<Num(0), Num(10)>>, concat_dim |-> "time",
        metadata |-> ObjId(0, "metadata", "a.nc")],
       [filepath |-> "b.nc", coord_range |-> <<Num(10), Num(20)>>, concat_dim |-> "time",
        metadata |-> ObjId(0, "metadata", "b.nc")] >>

ParentHeap(time_attrs) ==
    LET ids == {ObjId(0, "attrs", ""), ObjId(0, "coord", "time"), ObjId(0, "coord", "lat"),
                ObjId(0, "var", "temperature"), ObjId(0, "var", "mask"),
                ObjId(0, "metadata", "a.nc"), ObjId(0, "metadata", "b.nc")}
        content(id) ==
            IF id.kind = "attrs" THEN [title |-> "model output"]
            ELSE IF id.kind = "coord"
            THEN (IF id.name = "time" THEN time_attrs ELSE [long_name |-> "latitude"])
            ELSE IF id = ObjId(0, "var", "temperature") THEN [long_name |-> "temperature"]
            ELSE IF id = ObjId(0, "metadata", "a.nc") THEN [institution |-> "DKRZ"]
            ELSE EmptyAttrs
    IN  [id \in ids |-> content(id)]

InitGroup ==
    /\ \E size \in TimeSizes, st \in StoredTimes :
         \E time_attrs \in TimeAttrs(st) :
            /\ st.frequency.unit = "M" => size <= 3
            /\ ds = ParentDataset(size)
            /\ heap = ParentHeap(time_attrs)
    /\ file_tracking_enabled \in BOOLEAN
    /\ concat_dim = (IF file_tracking_enabled THEN "time" ELSE None)
    /\ file_sources = (IF file_tracking_enabled THEN ParentSources ELSE <<>>)
    /\ result = <<>>
    /\ call = NoCall /\ ret = NoRet
    /\ calls = <<>> /\ file_metadata = <<>>
    /\ start = None /\ end = None /\ group_freq = None
    /\ current = None /\ periods = <<>> /\ pc = "idle"

GroupGroupby ==
    /\ call = NoCall
    /\ \E freq \in GroupingFreqs, dim \in {"time", "lat", "level", "plev"},
          normalize_units \in BOOLEAN :
          GroupbyTime(freq, dim, normalize_units)
    /\ UNCHANGED <<calls, file_metadata, planVars>>

\* One mutation of the parent or of a group, after grouping.
GroupMutate ==
    /\ call.op = "groupby_time" /\ ret.status = "ok"
    /\ \E t \in 0..Len(result) :
          \/ \E name \in {"temperature", "mask"} :
                AssignVariableAttrs(t, name, "note", "changed")
          \/ AssignCoordAttrs(t, "time", "note", "changed")
          \/ AssignAttrs(t, "note", "changed")
          \/ AddDim(t, "lat", 5)
          \/ \E filepath \in {"a.nc", "b.nc"} :
                SetFileInfoMetadata(t, filepath, "note", "changed")
          \/ ReRegister(t, "a.nc", <<Num(0), Num(5)>>)
    /\ UNCHANGED <<calls, file_metadata, planVars>>

NextGroup == GroupGroupby \/ GroupMutate

SpecGroup == InitGroup /\ [][NextGroup]_vars

(***************************************************************************)
(* core.py: DummyDataset builder operations and their history              *)
(*                                                                         *)
(* A dataset under construction is [dims, coords, variables, attrs], each  *)
(* an insertion-ordered dict: a sequence of [key, value] entries.  A list  *)
(* of dimension names is [k |-> "list", v |-> <<...>>]; data is None, an   *)
(* array with a shape, or the placeholder string the history stores.       *)
(***************************************************************************)
Contains(d, key) == \E i \in 1..Len(d) : d[i].key = key
GetItem(d, key) == d[CHOOSE i \in 1..Len(d) : d[i].key = key].value
SetItem(d, key, value) ==
    IF Contains(d, key)
    THEN [i \in 1..Len(d) |-> IF d[i].key = key THEN [key |-> key, value |-> value] ELSE d[i]]
    ELSE Append(d, [key |-> key, value |-> value])
Pop(d, key) == SelectSeq(d, LAMBDA e : e.key # key)
KeyList(d) == [i \in 1..Len(d) |-> d[i].key]

List(s) == [k |-> "list", v |-> s]
Array(shape) == [k |-> "array", v |-> shape]
Placeholder == [k |-> "str", v |-> "<data>"]

\* np.asarray(data).shape: a string is a 0-dimensional array.
Shape(data) == IF data.k = "array" THEN data.v ELSE <<>>

\* f"dim_{i}"
DimName(i) == IF i = 0 THEN "dim_0" ELSE IF i = 1 THEN "dim_1" ELSE "dim_2"

\* DummyArray.infer_dims_from_data: the dims of the array afterwards and the
\* (dim, size) pairs of dict(zip(self.dims, shape)), in order.
InferDimsFromData(dims, data) ==
    IF IsNone(data) THEN [dims |-> dims, inferred |-> <<>>]
    ELSE LET shape == Shape(data)
             ds2 == IF IsNone(dims) THEN List([i \in 1..Len(shape) |-> DimName(i - 1)])
                    ELSE dims
             n == Min(Len(ds2.v), Len(shape))
             zipped == [i \in 1..n |-> [key |-> ds2.v[i], value |-> shape[i]]]
         IN  [dims |-> ds2, inferred |-> zipped]

\* DummyDataset._infer_and_register_dims: the loop over the inferred sizes from
\* position i; stops at the first conflict, keeping what it registered.
RECURSIVE RegisterDims(_, _, _)
RegisterDims(dims, inferred, i) ==
    IF i > Len(inferred) THEN [dims |-> dims, raised |-> FALSE]
    ELSE LET dim == inferred[i].key
             size == inferred[i].value
         IN  IF Contains(dims, dim)
             THEN (IF GetItem(dims, dim) # size THEN [dims |-> dims, raised |-> TRUE]
                   ELSE RegisterDims(dims, inferred, i + 1))
             ELSE RegisterDims(SetItem(dims, dim, size), inferred, i + 1)

\* A dataset with its history: s.history is None when nothing is recorded.
NewDataset(record_history) ==
    [ds |-> [dims |-> <<>>, coords |-> <<>>, variables |-> <<>>, attrs |-> <<>>],
     history |-> IF record_history THEN List(<< [func |-> "__init__", args |-> <<>>] >>)
                 ELSE None,
     outcome |-> Returned(None)]

\* _record_operation(func_name, args)
RecordOperation(s, func_name, args) ==
    IF IsNone(s.history) THEN s.history
    ELSE List(Append(s.history.v, [func |-> func_name, args |-> args]))

\* A keyword argument, or None when the call does not pass it.
Arg(args, key) == IF key \in DOMAIN args THEN args[key] ELSE None

\* The args dict add_coord / add_variable record: dims if not None, attrs if
\* non-empty, "<data>" in place of data.
ArrayArgs(name, dims, attrs, data) ==
    LET keys == {"name"} \cup (IF IsNone(dims) THEN {} ELSE {"dims"})
                         \cup (IF Falsy(attrs) THEN {} ELSE {"attrs"})
                         \cup (IF IsNone(data) THEN {} ELSE {"data"})
    IN  [key \in keys |->
            IF key = "name" THEN name
            ELSE IF key = "dims" THEN dims
            ELSE IF key = "attrs" THEN attrs
            ELSE Placeholder]

\* add_coord / add_variable on the dict named field ("coords" / "variables")
AddArray(s, func_name, field, name, dims, attrs, data) ==
    LET history == RecordOperation(s, func_name, ArrayArgs(name, dims, attrs, data))
        arr == InferDimsFromData(dims, data)
        reg == RegisterDims(s.ds.dims, arr.inferred, 1)
    IN  IF reg.raised
        THEN [ds |-> [s.ds EXCEPT !.dims = reg.dims], history |-> history,
              outcome |-> Raised("ValueError: Dimension mismatch")]
        ELSE [ds |-> [s.ds EXCEPT !.dims = reg.dims,
                                  ![field] = SetItem(@, name,
                                      [dims |-> arr.dims,
                                       attrs |-> IF Falsy(attrs) THEN EmptyDict ELSE attrs,
                                       data |-> data])],
              history |-> history, outcome |-> Returned(None)]

add_coord(s, name, dims, attrs, data) ==
    AddArray(s, "add_coord", "coords", name, dims, attrs, data)
add_variable(s, name, dims, attrs, data) ==
    AddArray(s, "add_variable", "variables", name, dims, attrs, data)

\* add_dim(name, size)
add_dim(s, name, size) ==
    [ds |-> [s.ds EXCEPT !.dims = SetItem(@, name, size)],
     history |-> RecordOperation(s, "add_dim", [name |-> name, size |-> size]),
     outcome |-> Returned(None)]

\* dict.update(kwargs), kwargs a sequence of [key, value]
RECURSIVE Update(_, _, _)
Update(d, kwargs, i) ==
    IF i > Len(kwargs) THEN d
    ELSE Update(SetItem(d, kwargs[i].key, kwargs[i].value), kwargs, i + 1)

\* assign_attrs(**kwargs)
assign_attrs(s, kwargs) ==
    [ds |-> [s.ds EXCEPT !.attrs = Update(@, kwargs, 1)],
     history |-> RecordOperation(s, "assign_attrs", kwargs),
     outcome |-> Returned("self")]

\* [new_name if d == old_name else d for d in arr.dims] on every array of a dict
RenameRefs(arrays, old_name, new_name) ==
    [i \in 1..Len(arrays) |->
        LET arr == arrays[i].value IN
        IF IsNone(arr.dims) \/ arr.dims.v = <<>> THEN arrays[i]
        ELSE [arrays[i] EXCEPT !.value.dims =
                 List([j \in 1..Len(arr.dims.v) |->
                         IF arr.dims.v[j] = old_name THEN new_name ELSE arr.dims.v[j]])]]

\* self.dims[new_name] = self.dims.pop(old_name) and the update of the
\* references, when old_name != new_name (and, for rename, old_name is still
\* a dimension).
RenameOneDim(b, old_name, new_name) ==
    IF old_name = new_name \/ ~Contains(b.dims, old_name) THEN b
    ELSE [b EXCEPT !.dims = SetItem(Pop(b.dims, old_name), new_name,
                                    GetItem(b.dims, old_name)),
                   !.coords = RenameRefs(@, old_name, new_name),
                   !.variables = RenameRefs(@, old_name, new_name)]

\* d[new_name] = d.pop(old_name) when old_name != new_name and old_name in d
RenameKey(d, old_name, new_name) ==
    IF old_name = new_name \/ ~Contains(d, old_name) THEN d
    ELSE SetItem(Pop(d, old_name), new_name, GetItem(d, old_name))

RECURSIVE RenameDimsFrom(_, _, _)
RenameDimsFrom(b, name_dict, i) ==
    IF i > Len(name_dict) THEN b
    ELSE RenameDimsFrom(RenameOneDim(b, name_dict[i].key, name_dict[i].value),
                        name_dict, i + 1)

RECURSIVE RenameKeysFrom(_, _, _)
RenameKeysFrom(d, name_dict, i) ==
    IF i > Len(name_dict) THEN d
    ELSE RenameKeysFrom(RenameKey(d, name_dict[i].key, name_dict[i].value),
                        name_dict, i + 1)

\* The validation loop of rename_dims / rename_vars over the dict d: the
\* error of the first offending pair, or a normal return.
RECURSIVE RenameCheck(_, _, _)
RenameCheck(d, name_dict, i) ==
    IF i > Len(name_dict) THEN Returned(None)
    ELSE LET old_name == name_dict[i].key
             new_name == name_dict[i].value
         IN  IF ~Contains(d, old_name) THEN Raised("KeyError: does not exist")
             ELSE IF Contains(d, new_name) /\ new_name # old_name
             THEN Raised("ValueError: already exists")
             ELSE RenameCheck(d, name_dict, i + 1)

Failed(s, e) == [s EXCEPT !.outcome = e]

\* rename_dims(dims_dict)
rename_dims(s, name_dict) ==
    IF name_dict = <<>> THEN Failed(s, Raised("ValueError: must be provided"))
    ELSE IF RenameCheck(s.ds.dims, name_dict, 1).status = "raise"
    THEN Failed(s, RenameCheck(s.ds.dims, name_dict, 1))
    ELSE [ds |-> RenameDimsFrom(s.ds, name_dict, 1),
          history |-> RecordOperation(s, "rename_dims", [dims_dict |-> name_dict]),
          outcome |-> Returned("self")]

\* rename_vars(name_dict)
rename_vars(s, name_dict) ==
    IF name_dict = <<>> THEN Failed(s, Raised("ValueError: must be provided"))
    ELSE IF RenameCheck(s.ds.variables, name_dict, 1).status = "raise"
    THEN Failed(s, RenameCheck(s.ds.variables, name_dict, 1))
    ELSE [ds |-> [s.ds EXCEPT !.variables = RenameKeysFrom(@, name_dict, 1)],
          history |-> RecordOperation(s, "rename_vars", [name_dict |-> name_dict]),
          outcome |-> Returned("self")]

\* rename(name_dict): dimensions first, then coordinates, then variables; the
\* pairs of each category are those whose old name was in it before any rename.
rename(s, name_dict) ==
    LET among(d) == SelectSeq(name_dict, LAMBDA e : Contains(d, e.key))
        known(e) == \/ Contains(s.ds.dims, e.key) \/ Contains(s.ds.coords, e.key)
                    \/ Contains(s.ds.variables, e.key)
        afterDims == RenameDimsFrom(s.ds, among(s.ds.dims), 1)
    IN  IF name_dict = <<>> THEN Failed(s, Raised("ValueError: must be provided"))
        ELSE IF \E i \in 1..Len(name_dict) : ~known(name_dict[i])
        THEN Failed(s, Raised("KeyError: does not exist"))
        ELSE [ds |-> [afterDims EXCEPT
                        !.coords = RenameKeysFrom(@, among(s.ds.coords), 1),
                        !.variables = RenameKeysFrom(@, among(s.ds.variables), 1)],
              history |-> RecordOperation(s, "rename", [name_dict |-> name_dict]),
              outcome |-> Returned("self")]

\* func(**op["args"]) for one recorded operation
Apply(s, op) ==
    IF op.func = "add_dim" THEN add_dim(s, op.args.name, op.args.size)
    ELSE IF op.func = "add_coord"
    THEN add_coord(s, op.args.name, Arg(op.args, "dims"), Arg(op.args, "attrs"),
                   Arg(op.args, "data"))
    ELSE IF op.func = "add_variable"
    THEN add_variable(s, op.args.name, Arg(op.args, "dims"), Arg(op.args, "attrs"),
                      Arg(op.args, "data"))
    ELSE IF op.func = "assign_attrs" THEN assign_attrs(s, op.args)
    ELSE IF op.func = "rename_dims" THEN rename_dims(s, op.args.dims_dict)
    ELSE IF op.func = "rename_vars" THEN rename_vars(s, op.args.name_dict)
    ELSE rename(s, op.args.name_dict)

\* The loop of replay_history from operation i: an operation that raises ends
\* the replay with its error.
RECURSIVE ReplayFrom(_, _, _)
ReplayFrom(s, history, i) ==
    IF i > Len(history) THEN Returned(s.ds)
    ELSE IF history[i].func = "__init__" THEN ReplayFrom(s, history, i + 1)
    ELSE LET t == Apply(s, history[i]) IN
         IF t.outcome.status = "raise" THEN t.outcome
         ELSE ReplayFrom(t, history, i + 1)

\* DummyDataset.replay_history(history)
replay_history(history) == ReplayFrom(NewDataset(FALSE), history, 1)

\* ds.get_history(): a copy of the list, [] when nothing is recorded
get_history(s) == IF IsNone(s.history) THEN <<>> ELSE s.history.v

(***************************************************************************)
(* Inputs of the history specification                                     *)
(***************************************************************************)
MaxOps == 3

\* The dataset being built and its history, as a state of the builder.
Builder == [ds |-> ds, history |-> calls, outcome |-> ret]

Built(t, op) ==
    /\ call' = [op |-> op]
    /\ ds' = t.ds
    /\ calls' = t.history
    /\ ret' = t.outcome

Pair(old_name, new_name) == << [key |-> old_name, value |-> new_name] >>

\* (dims, attrs, data) of the add_coord and add_variable calls.
HistCoordArgs ==
    {<<List(<<"time">>), Dict([units |-> "days"]), None>>,
     <<List(<<"time">>), None, Array(<<3>>)>>,
     <<None, None, Array(<<3>>)>>,
     <<None, None, None>>}
HistVariableArgs ==
    {<<List(<<"time", "lat">>), Dict([units |-> "K"]), None>>,
     <<List(<<"time", "lat">>), None, Array(<<3, 2>>)>>,
     <<List(<<"lat">>), None, Array(<<3>>)>>,
     <<None, None, Array(<<3, 2>>)>>}
HistDimArgs == {<<"time", 3>>, <<"time", 2>>, <<"lat", 2>>}
HistKwargs == {<<>>, << [key |-> "title", value |-> "a"], [key |-> "source", value |-> "m"] >>,
               << [key |-> "title", value |-> "b"] >>}
HistDimRenames == {<<>>, Pair("time", "t"), Pair("lat", "time"),
                   Pair("time", "t") \o Pair("lat", "y")}
HistVarRenames == {Pair("tas", "pr"), Pair("time", "t")}
HistRenames == {Pair("time", "t"), Pair("tas", "time"), Pair("lat", "time")}

InitHist ==
    /\ InitRegistry
    /\ ds = NewDataset(TRUE).ds
    /\ calls = NewDataset(TRUE).history
    /\ file_metadata = <<>>
    /\ start = None /\ end = None /\ group_freq = None
    /\ current = None /\ periods = <<>> /\ pc = "idle"
    /\ heap = <<>> /\ result = <<>>

HistGuard == call.op # "replay_history" /\ Len(calls.v) <= MaxOps
HistFrame == UNCHANGED <<regVars, file_metadata, planVars, groupVars>>

HistAddDim ==
    /\ HistGuard
    /\ \E a \in HistDimArgs : Built(add_dim(Builder, a[1], a[2]), "add_dim")
    /\ HistFrame

HistAddCoord ==
    /\ HistGuard
    /\ \E a \in HistCoordArgs :
          Built(add_coord(Builder, "time", a[1], a[2], a[3]), "add_coord")
    /\ HistFrame

HistAddVariable ==
    /\ HistGuard
    /\ \E a \in HistVariableArgs :
          Built(add_variable(Builder, "tas", a[1], a[2], a[3]), "add_variable")
    /\ HistFrame

HistAssignAttrs ==
    /\ HistGuard
    /\ \E kwargs \in HistKwargs : Built(assign_attrs(Builder, kwargs), "assign_attrs")
    /\ HistFrame

HistRenameDims ==
    /\ HistGuard
    /\ \E name_dict \in HistDimRenames : Built(rename_dims(Builder, name_dict), "rename_dims")
    /\ HistFrame

HistRenameVars ==
    /\ HistGuard
    /\ \E name_dict \in HistVarRenames : Built(rename_vars(Builder, name_dict), "rename_vars")
    /\ HistFrame

HistRename ==
    /\ HistGuard
    /\ \E name_dict \in HistRenames : Built(rename(Builder, name_dict), "rename")
    /\ HistFrame

\* new_ds = DummyDataset.replay_history(ds.get_history())
HistReplay ==
    /\ call.op # "replay_history"
    /\ call' = [op |-> "replay_history"]
    /\ ret' = replay_history(get_history(Builder))
    /\ UNCHANGED <<ds, calls>>
    /\ HistFrame

NextHist ==
    \/ HistAddDim \/ HistAddCoord \/ HistAddVariable \/ HistAssignAttrs
    \/ HistRenameDims \/ HistRenameVars \/ HistRename \/ HistReplay

SpecHist == InitHist /\ [][NextHist]_vars

(***************************************************************************)
(* FileTrackerMixin: get_file_info, file_sources and what they hand out    *)
(***************************************************************************)
\* The entry dict of the registry as its reader sees it.
EntryDict(info) ==
    [coord_range |-> info.coord_range, concat_dim |-> info.concat_dim,
     metadata |-> info.metadata]

\* get_file_info(filepath): KeyError for an untracked file, otherwise
\* self._file_sources[filepath].copy(), a new dict with the entry's values.
GetFileInfo(sources, filepath) ==
    IF ~HasKey(sources, filepath) THEN Raised("KeyError: File not tracked")
    ELSE Returned(EntryDict(Lookup(sources, filepath)))

GetFileInfoCall(filepath) ==
    /\ call' = [op |-> "get_file_info", filepath |-> filepath]
    /\ ret' = GetFileInfo(file_sources, filepath)
    /\ UNCHANGED regVars

\* The file_sources property: self._file_sources.copy(), a new outer dict
\* whose values are the registry's own entry dicts.
FileSourcesCall ==
    /\ call' = [op |-> "file_sources"]
    /\ ret' = Returned(file_sources)
    /\ UNCHANGED regVars

\* info = ds.get_file_info(filepath); info[field] = value: the dict written to
\* is the copy.
SetInfoField(filepath, field, value) ==
    /\ HasKey(file_sources, filepath)
    /\ call' = [op |-> "get_file_info.setitem", filepath |-> filepath, field |-> field]
    /\ ret' = Returned([EntryDict(Lookup(file_sources, filepath)) EXCEPT ![field] = value])
    /\ UNCHANGED regVars

\* sources = ds.file_sources; sources[filepath] = entry: the dict written to
\* is the copy of the outer dict.
SetSourcesEntry(filepath, entry) ==
    /\ call' = [op |-> "file_sources.setitem", filepath |-> filepath]
    /\ ret' = Returned(DictSet(file_sources, filepath, entry))
    /\ UNCHANGED regVars

\* ds.file_sources[filepath][field] = value: the dict written to is the entry
\* the registry itself holds, which the shallow copy shares.
SetSourcesEntryField(filepath, field, value) ==
    /\ HasKey(file_sources, filepath)
    /\ call' = [op |-> "file_sources.entry.setitem", filepath |-> filepath, field |-> field]
    /\ file_sources' = [file_sources EXCEPT ![IndexOf(file_sources, filepath)][field] = value]
    /\ ret' = Returned(file_sources')
    /\ UNCHANGED <<file_tracking_enabled, concat_dim>>

(***************************************************************************)
(* Inputs of the registry-reader specification                             *)
(***************************************************************************)
\* Registries of up to two entries over three adjacent ranges, with and
\* without metadata.
InfoEntries(filepath) ==
    {NewEntry("time", filepath, cr, md) :
        cr \in {<<Num(0), Num(10)>>, <<Num(10), Num(20)>>, <<Num(20), Num(30)>>},
        md \in {None, Dict([institution |-> "DKRZ"])}}
InfoRegistries ==
    {<<>>} \cup {<<a>> : a \in InfoEntries("a.nc")}
           \cup {<<a, b>> : a \in InfoEntries("a.nc"), b \in InfoEntries("b.nc")}

InitInfo ==
    /\ file_tracking_enabled = TRUE
    /\ concat_dim = "time"
    /\ file_sources \in InfoRegistries
    /\ call = NoCall /\ ret = NoRet
    /\ InitOther

InfoFrame == UNCHANGED <<ds, calls, file_metadata, planVars, groupVars>>

InfoQuery ==
    /\ \E s \in {Absent, Slice(Num(5), Num(15))} : GetSourceFilesCall(s, <<>>)
    /\ InfoFrame

InfoGet ==
    /\ \E fp \in {"a.nc", "b.nc", "c.nc"} : GetFileInfoCall(fp)
    /\ InfoFrame

InfoSources == FileSourcesCall /\ InfoFrame

InfoSetField ==
    /\ \E fp \in {"a.nc", "b.nc"} :
          \/ SetInfoField(fp, "coord_range", <<Num(0), Num(99)>>)
          \/ SetInfoField(fp, "metadata", Dict([note |-> "changed"]))
    /\ InfoFrame

InfoSetEntry ==
    /\ \E fp \in {"a.nc", "c.nc"} :
          SetSourcesEntry(fp, NewEntry("time", fp, <<Num(0), Num(99)>>, None))
    /\ InfoFrame

InfoSetEntryField ==
    /\ \E fp \in {"a.nc", "b.nc"} :
          \/ SetSourcesEntryField(fp, "coord_range", <<Num(0), Num(99)>>)
          \/ SetSourcesEntryField(fp, "metadata", Dict([note |-> "changed"]))
    /\ InfoFrame

NextInfo ==
    InfoQuery \/ InfoGet \/ InfoSources \/ InfoSetField \/ InfoSetEntry \/ InfoSetEntryField

SpecInfo == InitInfo /\ [][NextInfo]_vars

(***************************************************************************)
(* Registry queries                                                        *)
(***************************************************************************)
IsQuery == call.op = "get_source_files"
QuerySel == EffectiveSelector(concat_dim, call.coord_slice, call.coord_selectors)
InResult(filepath) == \E i \in 1..Len(ret.value) : ret.value[i] = filepath
ResultSet == {ret.value[i] : i \in 1..Len(ret.value)}
Distinct(s) == \A i, j \in 1..Len(s) : i # j => s[i] # s[j]

\* Both bounds of the selector are present and each is of the kind of the
\* stored bound the overlap test compares it with.
Comparable(sel, info) ==
    /\ ~IsNone(sel.start) /\ ~IsNone(sel.stop)
    /\ ~IsNone(info.coord_range[1]) /\ ~IsNone(info.coord_range[2])
    /\ sel.start.k = info.coord_range[2].k
    /\ info.coord_range[1].k = sel.stop.k

\* C2: on an enabled registry, a query whose selector (s_lo, s_hi) has both
\* bounds present returns, among the sources whose stored range (f_lo, f_hi) is
\* comparable to it, exactly those with s_lo < f_hi and f_lo < s_hi (strict),
\* and returns nothing that is not registered.
C2_OverlapQuery ==
    (IsQuery /\ file_tracking_enabled /\ QuerySel.kind # "absent") =>
        /\ ret.status = "ok"
        /\ ResultSet \subseteq {file_sources[i].filepath : i \in 1..Len(file_sources)}
        /\ \A i \in 1..Len(file_sources) :
              LET info == file_sources[i] IN
              Comparable(QuerySel, info) =>
                 (InResult(info.filepath) <=>
                     /\ QuerySel.start.v < info.coord_range[2].v
                     /\ info.coord_range[1].v < QuerySel.stop.v)

\* C2 witness: A=(0,10), B=(10,20), C=(20,30) are registered, the query is
\* (5,15), and exactly {A,B} came back.
C2_Witness ==
    /\ IsQuery /\ file_tracking_enabled
    /\ QuerySel = Slice(Num(5), Num(15))
    /\ Len(file_sources) = 3
    /\ Lookup(file_sources, "a.nc").coord_range = <<Num(0), Num(10)>>
    /\ Lookup(file_sources, "b.nc").coord_range = <<Num(10), Num(20)>>
    /\ Lookup(file_sources, "c.nc").coord_range = <<Num(20), Num(30)>>
    /\ ResultSet = {"a.nc", "b.nc"}

\* C6: a step that calls add_file_source while tracking is not enabled ends in
\* the not-enabled error and leaves entries, concat_dim and the enabled flag
\* as they were.
C6_RegisterBeforeEnable ==
    [][(call'.op = "add_file_source" /\ ~file_tracking_enabled) =>
          /\ ret'.status = "raise"
          /\ ret'.value = "RuntimeError: File tracking not enabled"
          /\ UNCHANGED regVars]_vars

\* C6 witness: add_file_source was called before enable and raised.
C6_Witness ==
    /\ call.op = "add_file_source"
    /\ ret.status = "raise"
    /\ ~file_tracking_enabled /\ file_sources = <<>> /\ concat_dim = None

\* C9 (as claimed): with an open start the result is exactly the sources with
\* f_lo < s_hi, with an open end exactly those with s_lo < f_hi; the bounded
\* side is still tested.
C9_HalfOpenAsClaimed ==
    (IsQuery /\ file_tracking_enabled /\ QuerySel.kind = "slice") =>
        \A i \in 1..Len(file_sources) :
           LET info == file_sources[i]
               f_lo == info.coord_range[1]
               f_hi == info.coord_range[2]
           IN  /\ (IsNone(QuerySel.start) /\ ~IsNone(QuerySel.stop)
                     /\ f_lo.k = QuerySel.stop.k) =>
                       (InResult(info.filepath) <=> f_lo.v < QuerySel.stop.v)
               /\ (~IsNone(QuerySel.start) /\ IsNone(QuerySel.stop)
                     /\ f_hi.k = QuerySel.start.k) =>
                       (InResult(info.filepath) <=> QuerySel.start.v < f_hi.v)
               /\ (IsNone(QuerySel.start) /\ IsNone(QuerySel.stop)) =>
                       InResult(info.filepath)

\* An entry one of whose bounds cannot be ordered against the selector bound
\* the overlap test pairs it with.
SomeBoundIncomparable(sel, info) ==
    /\ ~IsNone(sel.start) /\ ~IsNone(sel.stop)
    /\ ~IsNone(info.coord_range[1]) /\ ~IsNone(info.coord_range[2])
    /\ \/ sel.start.k # info.coord_range[2].k
       \/ info.coord_range[1].k # sel.stop.k

\* C10 (as claimed): whenever a selector bound cannot be ordered against an
\* entry's stored bound, the query raises nothing and the entry is returned.
C10_IncomparableAsClaimed ==
    (IsQuery /\ file_tracking_enabled /\ QuerySel.kind # "absent") =>
        /\ ret.status = "ok"
        /\ \A i \in 1..Len(file_sources) :
              SomeBoundIncomparable(QuerySel, file_sources[i]) =>
                 InResult(file_sources[i].filepath)

\* The comparison the overlap test evaluates first cannot be ordered: s_lo
\* against f_hi, or, once s_lo < f_hi holds, f_lo against s_hi.
EvaluatedBoundIncomparable(sel, info) ==
    /\ ~IsNone(sel.start) /\ ~IsNone(sel.stop)
    /\ ~IsNone(info.coord_range[1]) /\ ~IsNone(info.coord_range[2])
    /\ \/ sel.start.k # info.coord_range[2].k
       \/ /\ sel.start.k = info.coord_range[2].k
          /\ sel.start.v < info.coord_range[2].v
          /\ info.coord_range[1].k # sel.stop.k

\* The selector's two bounds are of one kind and the entry's two of another.
KindsDiffer(sel, info) ==
    /\ ~IsNone(sel.start) /\ ~IsNone(sel.stop)
    /\ ~IsNone(info.coord_range[1]) /\ ~IsNone(info.coord_range[2])
    /\ sel.start.k = sel.stop.k
    /\ info.coord_range[1].k = info.coord_range[2].k
    /\ sel.start.k # info.coord_range[1].k

\* C10 (amended): a query never raises and never changes the registry; an
\* entry is returned whenever the comparison the overlap test evaluates cannot
\* be ordered (s_lo against f_hi, or f_lo against s_hi once s_lo < f_hi), in
\* particular whenever selector and stored range are each of one kind and the
\* two kinds differ.
C10_IncomparableAmended ==
    /\ [](IsQuery => ret.status = "ok")
    /\ []((IsQuery /\ file_tracking_enabled /\ QuerySel.kind # "absent") =>
            \A i \in 1..Len(file_sources) :
               /\ EvaluatedBoundIncomparable(QuerySel, file_sources[i]) =>
                     InResult(file_sources[i].filepath)
               /\ KindsDiffer(QuerySel, file_sources[i]) =>
                     InResult(file_sources[i].filepath))
    /\ [][call'.op = "get_source_files" => UNCHANGED regVars]_vars

\* C10 witness: a timestamp selector met a numeric stored range and the entry
\* was returned.
C10_Witness ==
    /\ IsQuery /\ file_tracking_enabled /\ ret.status = "ok"
    /\ QuerySel = Slice(Ts(5), Ts(5))
    /\ \E i \in 1..Len(file_sources) :
          /\ file_sources[i].coord_range = <<Num(0), Num(10)>>
          /\ InResult(file_sources[i].filepath)

(***************************************************************************)
(* Validation and merge                                                    *)
(***************************************************************************)
IsValidate == call.op = "validate_file_compatibility"
IsOpen == call.op = "open_mfdataset"
Validated == (IsValidate \/ IsOpen) /\ file_metadata # <<>>

\* k_1 + ... + k_n, counted from the last record down.
RECURSIVE TotalSteps(_, _, _)
TotalSteps(fm, cd, n) ==
    IF n = 0 THEN 0 ELSE TotalSteps(fm, cd, n - 1) + fm[n].dims[cd]

\* C1: whenever open_mfdataset returns a dataset for N >= 1 records, the size
\* of the concat dimension in it is k_1 + ... + k_N, the records' own sizes.
C1_MergeSum ==
    (IsOpen /\ ret.status = "ok") =>
        /\ Len(file_metadata) >= 1
        /\ call.concat_dim \in DOMAIN ds.dims
        /\ ds.dims[call.concat_dim] =
              TotalSteps(file_metadata, call.concat_dim, Len(file_metadata))

\* C1 witness: two files of different sizes (1 and 2 steps) were merged.
C1_Witness ==
    /\ IsOpen /\ ret.status = "ok"
    /\ Len(file_metadata) = 2
    /\ file_metadata[1].dims["time"] = 1
    /\ file_metadata[2].dims["time"] = 2
    /\ ds.dims["time"] = 3

AllHaveConcatDim(fm, cd) == \A i \in 1..Len(fm) : cd \in DOMAIN fm[i].dims
SameVariableSets(fm) == \A i \in 1..Len(fm) : VarNamesOf(fm[i]) = VarNamesOf(fm[1])
SameDimTuples(fm) ==
    \A i \in 1..Len(fm) : \A x \in VarNamesOf(fm[i]) \cap VarNamesOf(fm[1]) :
        fm[i].variables[x].dims = fm[1].variables[x].dims

\* C4: _validate_file_compatibility returns without error exactly when every
\* record has concat_dim, every record's variable-name set equals the first
\* record's, and every variable's dims tuple equals the first record's.
C4_ValidatorAcceptance ==
    IsValidate =>
        (ret.status = "ok" <=>
            /\ AllHaveConcatDim(file_metadata, call.concat_dim)
            /\ SameVariableSets(file_metadata)
            /\ SameDimTuples(file_metadata))

\* C4 witness: two records with the same two variables were accepted.
C4_Witness ==
    /\ IsValidate /\ ret.status = "ok"
    /\ Len(file_metadata) = 2
    /\ VarNamesOf(file_metadata[1]) = {"A", "B"}

SomeVariableMismatch(fm) == \E i \in 1..Len(fm) : VarNamesOf(fm[i]) # VarNamesOf(fm[1])
LowestVariableMismatch(fm) ==
    CHOOSE i \in 1..Len(fm) :
        /\ VarNamesOf(fm[i]) # VarNamesOf(fm[1])
        /\ \A j \in 1..(i - 1) : VarNamesOf(fm[j]) = VarNamesOf(fm[1])

\* No dataset came out of the call: the caller's dataset and registry are untouched.
NothingProduced == ds = EmptyDataset /\ ~file_tracking_enabled /\ file_sources = <<>>

LastCallFor(filepath) ==
    calls[CHOOSE i \in 1..Len(calls) :
            /\ calls[i].filepath = filepath
            /\ \A j \in (i + 1)..Len(calls) : calls[j].filepath # filepath]

\* The source ids of the history, each at its first registration.
RECURSIVE FirstRegistrations(_)
FirstRegistrations(log) ==
    IF log = <<>> THEN <<>>
    ELSE LET front == FirstRegistrations(SubSeq(log, 1, Len(log) - 1))
             fp == log[Len(log)].filepath
         IN  IF fp \in Range(front) THEN front ELSE Append(front, fp)

\* An omitted metadata argument is stored as the empty dict.
GivenMetadata(md) == IF IsNone(md) THEN EmptyDict ELSE md

\* C7: the registry holds exactly one entry per source id registered since
\* the last enable; each entry carries the coord_range and metadata of that
\* id's most recent registration and the registry's current concat_dim.
\* (Registering one id therefore never changes another id's entry.)
C7_InsertOrOverwrite ==
    file_tracking_enabled =>
        /\ Distinct(Keys(file_sources))
        /\ Range(Keys(file_sources)) = {calls[i].filepath : i \in 1..Len(calls)}
        /\ \A i \in 1..Len(file_sources) :
              LET info == file_sources[i]
                  last == LastCallFor(info.filepath)
              IN  /\ info.coord_range = last.coord_range
                  /\ info.metadata = GivenMetadata(last.metadata)
                  /\ info.concat_dim = concat_dim

\* C7 witness: a.nc was registered, then b.nc, then a.nc again with another
\* range; the registry holds two entries and a.nc carries the later range.
C7_Witness ==
    /\ file_tracking_enabled
    /\ Len(calls) = 3
    /\ calls[1].filepath = "a.nc" /\ calls[2].filepath = "b.nc"
    /\ calls[3].filepath = "a.nc"
    /\ calls[1].coord_range # calls[3].coord_range
    /\ Len(file_sources) = 2
    /\ Lookup(file_sources, "a.nc").coord_range = calls[3].coord_range

\* C8: on an enabled registry a query without selector returns every
\* registered source once, in the order of first registration; after
\* open_mfdataset that is the order of the caller's list, and for a glob
\* pattern the lexicographic order of the matching paths.
C8_NoSelectorOrder ==
    /\ (IsQuery /\ file_tracking_enabled /\ QuerySel.kind = "absent") =>
          /\ ret.value = FirstRegistrations(calls)
          /\ Distinct(ret.value)
          /\ Range(ret.value) = Range(Keys(file_sources))
    /\ (IsOpen /\ ret.status = "ok") =>
          LET all == GetSourceFiles(file_tracking_enabled, concat_dim, file_sources,
                                    Absent, <<>>)
          IN  /\ Distinct(all)
              /\ call.paths.kind = "list" =>
                    /\ Range(all) = Range(call.paths.items)
                    /\ \A i, j \in 1..Len(all) :
                          i < j => \E m \in 1..Len(call.paths.items) :
                                      /\ call.paths.items[m] = all[i]
                                      /\ \A n \in 1..m : call.paths.items[n] # all[j]
                    /\ Distinct(call.paths.items) => all = call.paths.items
              /\ call.paths.kind = "glob" =>
                    /\ Range(all) = call.paths.matches
                    /\ \A i, j \in 1..Len(all) :
                          i < j => PathRank(all[i]) < PathRank(all[j])

\* C8 witness: b.nc was registered before a.nc, a.nc was registered again, and
\* the query without selector answered b.nc, a.nc.
C8_Witness ==
    /\ IsQuery /\ file_tracking_enabled /\ QuerySel.kind = "absent"
    /\ Len(calls) = 3
    /\ calls[1].filepath = "b.nc" /\ calls[2].filepath = "a.nc"
    /\ calls[3].filepath = "b.nc"
    /\ ret.value = <<"b.nc", "a.nc">>

(***************************************************************************)
(* Period planning                                                         *)
(***************************************************************************)
Before(a, b) == Stamp(a) < Stamp(b)
NotAfter(a, b) == Stamp(a) <= Stamp(b)

\* C3: the list create_time_periods returns is empty when start >= end;
\* otherwise its first period starts at start, each period ends where the
\* next one starts, no period ends before it starts, no period ends after
\* end, and the last period ends exactly at end.
C3_PeriodShape ==
    pc = "done" =>
        /\ ret = Returned(periods)
        /\ ~Before(start, end) => periods = <<>>
        /\ Before(start, end) =>
              /\ periods # <<>>
              /\ periods[1][1] = start
              /\ \A i \in 1..(Len(periods) - 1) : periods[i][2] = periods[i + 1][1]
              /\ \A i \in 1..Len(periods) :
                    /\ NotAfter(periods[i][1], periods[i][2])
                    /\ NotAfter(periods[i][2], end)
              /\ \A i \in 1..(Len(periods) - 1) :
                    NotAfter(periods[i][1], periods[i + 1][1])
              /\ periods[Len(periods)][2] = end

\* C3 witness: 2000-01-01 .. 2005-06-15 by 10Y returned the single period
\* (2000-01-01, 2005-06-15).
C3_Witness ==
    /\ pc = "done"
    /\ start = DateTime(2000, 1, 1, 0, 0)
    /\ end = DateTime(2005, 6, 15, 0, 0)
    /\ group_freq = <<10, "Y">>
    /\ periods = << <<DateTime(2000, 1, 1, 0, 0), DateTime(2005, 6, 15, 0, 0)>> >>

(***************************************************************************)
(* Frequency inference                                                     *)
(***************************************************************************)
IsInfer == call.op = "infer_time_frequency"
SampledDeltas == Deltas(SampleTimes(call.coord_values, call.units))
Decodable == Len(call.coord_values) >= 2 /\ MsPer(call.units) # 0

\* Any two deltas are within one second of each other.
ConsistentAllPairs(deltas) ==
    \A i, j \in 1..Len(deltas) : Abs(deltas[i] - deltas[j]) <= 1000

\* The frequency string with days taking priority over hours.
FrequencyStringDaysFirst(ms) ==
    IF ms % 86400000 = 0 THEN Freq(ms \div 86400000, "D")
    ELSE IF ms % 3600000 = 0 THEN Freq(ms \div 3600000, "H")
    ELSE IF ms % 60000 = 0 THEN Freq(ms \div 60000, "T")
    ELSE IF ms % 1000 = 0 THEN Freq(ms \div 1000, "S")
    ELSE None

\* C11: infer_time_frequency returns None whenever any two of the deltas
\* between consecutive sampled timestamps differ by more than one second,
\* whichever positions the two deltas occupy.
C11_IrregularAsClaimed ==
    (IsInfer /\ Decodable /\ ~ConsistentAllPairs(SampledDeltas)) => IsNone(ret.value)

\* C12: a common delta that is a positive multiple of 86400 seconds is
\* reported in days with multiplier delta/86400; otherwise one divisible by
\* 3600 seconds in hours, otherwise by 60 in minutes, otherwise a whole number
\* of seconds in seconds.
C12_UnitPriorityAsClaimed ==
    (IsInfer /\ Decodable /\ Consistent(SampledDeltas) /\ SampledDeltas[1] > 0) =>
        ret.value = FrequencyStringDaysFirst(SampledDeltas[1])

\* The fields of a datetime, most significant first, and their
\* lexicographic order.
FieldsOf(t) == <<t.year, t.month, t.day, t.hour, t.minute, t.second, t.micro>>
FieldsAfter(a, b) ==
    \E i \in 1..7 : a[i] > b[i] /\ \A j \in 1..(i - 1) : a[j] = b[j]
MonthIndex(t) == t.year * 12 + (t.month - 1)
SameDayAndTime(s, e) ==
    e.day = s.day /\ e.hour = s.hour /\ e.minute = s.minute /\ e.second = s.second

\* e is s advanced by the step gf as C13 describes it.
SteppedBy(s, e, gf) ==
    CASE gf[2] = "Y" ->
            e.year = s.year + gf[1] /\ e.month = s.month /\ SameDayAndTime(s, e)
      [] gf[2] = "M" ->
            /\ MonthIndex(e) = MonthIndex(s) + gf[1] /\ e.month \in 1..12
            /\ SameDayAndTime(s, e)
      [] gf[2] = "D" ->
            Seconds(e) = Seconds(s) + gf[1] * 86400 /\ e.micro = s.micro
      [] gf[2] = "H" ->
            Seconds(e) = Seconds(s) + gf[1] * 3600 /\ e.micro = s.micro
      [] OTHER -> FALSE

\* The step from s reaches beyond the overall end, so the period is clipped.
StepExceedsEnd(s, gf) ==
    CASE gf[2] = "Y" ->
            FieldsAfter(FieldsOf([s EXCEPT !.year = @ + gf[1], !.micro = 0]),
                        FieldsOf(end))
      [] gf[2] = "M" ->
            LET mi == MonthIndex(s) + gf[1] IN
            FieldsAfter(FieldsOf([s EXCEPT !.year = mi \div 12,
                                           !.month = (mi % 12) + 1, !.micro = 0]),
                        FieldsOf(end))
      [] gf[2] = "D" -> (Seconds(s) + gf[1] * 86400) * 2 + s.micro > Stamp(end)
      [] gf[2] = "H" -> (Seconds(s) + gf[1] * 3600) * 2 + s.micro > Stamp(end)
      [] OTHER -> FALSE

\* C13: every period end that is not clipped is its period start advanced by
\* N in the year field (NY), by N months with carry into the year (NM), with
\* day and time of day unchanged, or by exactly N days (ND) or N hours (NH).
C13_CalendarStepping ==
    \A i \in 1..Len(periods) :
        ~StepExceedsEnd(periods[i][1], group_freq) =>
            SteppedBy(periods[i][1], periods[i][2], group_freq)

\* C13 witness: 2000-01-01 .. 2030-01-01 by 10Y returned three periods
\* starting 2000-01-01, 2010-01-01 and 2020-01-01, the last ending 2030-01-01.
C13_Witness ==
    /\ pc = "done"
    /\ group_freq = <<10, "Y">>
    /\ periods = << <<DateTime(2000, 1, 1, 0, 0), DateTime(2010, 1, 1, 0, 0)>>,
                    <<DateTime(2010, 1, 1, 0, 0), DateTime(2020, 1, 1, 0, 0)>>,
                    <<DateTime(2020, 1, 1, 0, 0), DateTime(2030, 1, 1, 0, 0)>> >>

SupportedSuffix(gf) == gf[2] \in {"Y", "M", "D", "H"}

\* C14: a create_time_periods call whose group_freq suffix is not one of Y, M,
\* D, H fails with the unsupported-frequency error and returns no periods, for
\* every start and end.
C14_UnsupportedAsClaimed ==
    (pc \in {"done", "raised"} /\ ~SupportedSuffix(group_freq)) =>
        /\ pc = "raised"
        /\ ret = Raised("ValueError: Unsupported grouping frequency")

(***************************************************************************)
(* Grouping                                                                *)
(***************************************************************************)
\* groupby_time has just returned its groups.
Grouped == call.op = "groupby_time" /\ ret.status = "ok"

\* The time coordinate's attrs in the parent, its reference date, and the
\* periods the grouping call planned.
ParentTimeAttrs == heap[ds.coords[call.dim].attrs]
StoredFrequency == ParentTimeAttrs.frequency
RefDate == ParseDate(ParentTimeAttrs.units.since)
PlannedPeriods ==
    CreateTimePeriods(RefDate,
                      AddFrequency(RefDate, StoredFrequency, ds.dims[call.dim]).value,
                      call.freq).value

\* Whole steps of the stored frequency in the period, rounding down.
WholeSteps(period, freq) ==
    CHOOSE n \in 0..(Seconds(period[2]) - Seconds(period[1])) :
        LET step == freq.n * UnitSeconds(freq.unit)
            length == Seconds(period[2]) - Seconds(period[1])
        IN  n * step <= length /\ length < (n + 1) * step

\* C15: each group's size along the grouping dimension is the number of whole
\* stored-frequency steps between its period's start and end, rounding down;
\* a 30-step daily dataset grouped by 1M gives one group of size 30.
C15_GroupSize ==
    Grouped =>
        /\ Len(result) = Len(PlannedPeriods)
        /\ \A i \in 1..Len(result) :
              result[i].dims[call.dim] = WholeSteps(PlannedPeriods[i], StoredFrequency)
        /\ (ds.dims[call.dim] = 30 /\ StoredFrequency = Freq(1, "D")
                /\ call.freq = <<1, "M">>) =>
              (Len(result) = 1 /\ result[1].dims[call.dim] = 30)

\* C15 witness: periods that are not a whole number of steps long (steps of 6
\* hours, periods of 100 hours) got the rounded-down size 16.
C15_Witness ==
    /\ Grouped
    /\ StoredFrequency = Freq(6, "H") /\ call.freq = <<100, "H">>
    /\ Len(result) >= 2 /\ result[1].dims[call.dim] = 16

GroupTimeAttrs(i) == heap[result[i].coords[call.dim].attrs]

\* The text "YYYY-MM-DD HH:MM:SS" of a datetime, as its six numbers.
Timestamp(t) == <<t.year, t.month, t.day, t.hour, t.minute, t.second>>

\* C16: with normalize_units true the i-th group's grouping coordinate has
\* units "<unit> since <start of the i-th period>", <unit> being hours for an
\* hour, minute or second stored frequency and days otherwise, and its other
\* attributes are the parent's; with normalize_units false its units are the
\* parent's.
C16_UnitNormalization ==
    Grouped =>
        \A i \in 1..Len(result) :
            /\ DOMAIN GroupTimeAttrs(i) = DOMAIN ParentTimeAttrs
            /\ \A k \in DOMAIN ParentTimeAttrs \ {"units"} :
                  GroupTimeAttrs(i)[k] = ParentTimeAttrs[k]
            /\ call.normalize_units =>
                  /\ GroupTimeAttrs(i).units.since = Timestamp(PlannedPeriods[i][1])
                  /\ GroupTimeAttrs(i).units.unit =
                        (IF StoredFrequency.unit \in {"H", "T", "S"}
                         THEN "hours" ELSE "days")
            /\ ~call.normalize_units => GroupTimeAttrs(i).units = ParentTimeAttrs.units

\* C16 witness: a parent stored in minutes since 2000-01-01 at a 90-minute
\* frequency was grouped with normalize_units; its first group is in hours
\* since 2000-01-01 00:00:00.
C16_Witness ==
    /\ Grouped /\ call.normalize_units
    /\ StoredFrequency = Freq(90, "T")
    /\ ParentTimeAttrs.units = Units("minutes", <<2000, 1, 1, 0, 0, 0>>)
    /\ Len(result) >= 1
    /\ GroupTimeAttrs(1).units = Units("hours", <<2000, 1, 1, 0, 0, 0>>)

\* The registry entries of dataset t with their metadata dicts read out.
EntriesOf(sources) ==
    [j \in 1..Len(sources) |->
        [filepath |-> sources[j].filepath, coord_range |-> sources[j].coord_range,
         metadata |-> heap[sources[j].metadata]]]

\* C17: if the parent has tracking enabled, every group has tracking enabled
\* on the grouping dimension and holds exactly the parent's entries (same
\* ids, same order, same coord_range, same metadata); otherwise no group has
\* tracking enabled.
C17_RegistryCarryForward ==
    Grouped =>
        \A i \in 1..Len(result) :
            IF file_tracking_enabled
            THEN /\ result[i].file_tracking_enabled
                 /\ result[i].concat_dim = call.dim
                 /\ EntriesOf(result[i].file_sources) = EntriesOf(file_sources)
            ELSE /\ ~result[i].file_tracking_enabled
                 /\ result[i].file_sources = <<>>

\* C17 witness: a tracked parent with two sources was split into at least two
\* groups, the second of which holds both sources.
C17_Witness ==
    /\ Grouped /\ file_tracking_enabled
    /\ Len(result) >= 2
    /\ Keys(result[2].file_sources) = <<"a.nc", "b.nc">>

\* What can be observed of dataset t: its dims, its global, coordinate and
\* variable attrs, and its registry entries with their metadata.
Observed(t) ==
    LET d == DatasetAt(t) IN
    [attrs |-> heap[d.attrs],
     dims |-> d.dims,
     coords |-> [c \in DOMAIN d.coords |->
                    [dims |-> d.coords[c].dims, attrs |-> heap[d.coords[c].attrs]]],
     variables |-> [x \in DOMAIN d.variables |->
                    [dims |-> d.variables[x].dims, attrs |-> heap[d.variables[x].attrs]]],
     file_tracking_enabled |-> d.file_tracking_enabled,
     file_sources |-> EntriesOf(d.file_sources)]

IsMutation ==
    call.op \in {"variable.assign_attrs", "coord.assign_attrs", "assign_attrs",
                 "add_dim", "get_file_info.metadata", "add_file_source"}

\* C18: after grouping, a mutation of one dataset (the parent or a group) is
\* observable in no other dataset (parent or group).
C18_IndependenceAsClaimed ==
    [][IsMutation' =>
          \A u \in 0..Len(result) : u # call'.target => Observed(u)' = Observed(u)]_vars

(***************************************************************************)
(* Merge order                                                             *)
(***************************************************************************)
Merged == call.op = "combine_file_metadata" /\ ret.status = "ok"

\* The orderings of the n records.
Orderings(n) == {f \in [1..n -> 1..n] : \A i, j \in 1..n : f[i] = f[j] => i = j}
Reordered(fm, f) == [i \in 1..Len(fm) |-> fm[f[i]]]

\* The names and dims tuples of a dataset's variables.
VariableShapes(d) == [x \in DOMAIN d.variables |-> d.variables[x].dims]

\* C19: merging the same compatible records in another order gives a
\* description identical except for the attributes and coordinates copied
\* (those of the record placed first), with the same concat-dim size.
C19_OrderAsClaimed ==
    Merged =>
        \A f \in Orderings(Len(file_metadata)) :
            LET other == CombineFileMetadata(Reordered(file_metadata, f), call.concat_dim)
            IN  /\ other.dims = ds.dims
                /\ VariableShapes(other) = VariableShapes(ds)

\* What a merge copies from the record placed first.
CopiedFromFirst(d, first, cd) ==
    /\ d.attrs = first.attrs
    /\ DOMAIN d.dims = DOMAIN first.dims
    /\ \A n \in DOMAIN first.dims \ {cd} : d.dims[n] = first.dims[n]
    /\ DOMAIN d.coords = DOMAIN first.coords
    /\ \A c \in DOMAIN first.coords :
          d.coords[c].dims = first.coords[c].dims /\ d.coords[c].attrs = first.coords[c].attrs
    /\ DOMAIN d.variables = DOMAIN first.variables
    /\ \A x \in DOMAIN first.variables :
          /\ d.variables[x].dims = first.variables[x].dims
          /\ d.variables[x].attrs = first.variables[x].attrs

\* C19 (amended): merging the same compatible records in another order gives
\* the same concat-dim size and the same variable names and dims tuples;
\* everything else (global, coordinate and variable attributes, coordinates,
\* dimension names and non-concat dimension sizes) is that of the record
\* placed first in each order.
C19_OrderAmended ==
    Merged =>
        \A f \in Orderings(Len(file_metadata)) :
            LET fm2 == Reordered(file_metadata, f)
                other == CombineFileMetadata(fm2, call.concat_dim)
            IN  /\ other.dims[call.concat_dim] = ds.dims[call.concat_dim]
                /\ VariableShapes(other) = VariableShapes(ds)
                /\ CopiedFromFirst(other, fm2[1], call.concat_dim)
                /\ CopiedFromFirst(ds, file_metadata[1], call.concat_dim)

\* C19 witness: two records of different sizes along time and different lat
\* sizes were merged.
C19_Witness ==
    /\ Merged /\ Len(file_metadata) = 2
    /\ file_metadata[1].dims["time"] = 1 /\ file_metadata[2].dims["time"] = 2
    /\ file_metadata[1].dims["lat"] # file_metadata[2].dims["lat"]
    /\ ds.dims["time"] = 3

\* C20: the merged description's dimension names and non-concat sizes, its
\* coordinates, its variables and its global attributes are those of the
\* first record; later records contribute only their concat-dim size, and
\* their conflicting attributes are ignored without error.
C20_FirstWins ==
    (call.op = "combine_file_metadata"
        /\ ValidateFileCompatibility(file_metadata, call.concat_dim) = {Returned(None)}) =>
        /\ ret.status = "ok"
        /\ CopiedFromFirst(ds, file_metadata[1], call.concat_dim)
        /\ ds.dims[call.concat_dim] = TotalSteps(file_metadata, call.concat_dim,
                                                 Len(file_metadata))

\* C20 witness: the second record's title, coordinates, variable attrs and lat
\* size all differ from the first's, and the merge kept the first's.
C20_Witness ==
    /\ Merged /\ Len(file_metadata) = 2
    /\ file_metadata[2].attrs # file_metadata[1].attrs
    /\ file_metadata[2].coords # file_metadata[1].coords
    /\ file_metadata[2].dims["lat"] # file_metadata[1].dims["lat"]
    /\ ds.attrs = file_metadata[1].attrs
    /\ ds.dims["lat"] = file_metadata[1].dims["lat"]

(***************************************************************************)
(* Grouping preconditions                                                  *)
(***************************************************************************)
\* The grouping dimension is absent from dims, absent from coords, or its
\* coordinate has no units or no frequency attribute.
NoDim(dim) == dim \notin DOMAIN ds.dims
NoCoord(dim) == dim \in DOMAIN ds.dims /\ dim \notin DOMAIN ds.coords
CoordLacks(dim, key) ==
    /\ dim \in DOMAIN ds.dims /\ dim \in DOMAIN ds.coords
    /\ key \notin DOMAIN heap[ds.coords[dim].attrs]
PreconditionFails(dim) ==
    NoDim(dim) \/ NoCoord(dim) \/ CoordLacks(dim, "units") \/ CoordLacks(dim, "frequency")

\* C21: groupby_time fails and returns no groups when the grouping dimension
\* is absent from dims, absent from coords, or its coordinate has no units or
\* no frequency attribute (the last with the 'no frequency attribute'
\* message); the dataset (dims, coords, variables, attrs, registry) is
\* unchanged in each case.
C21_Preconditions ==
    [][(call = NoCall /\ call'.op = "groupby_time" /\ PreconditionFails(call'.dim)) =>
          /\ ret'.status = "raise"
          /\ result' = <<>>
          /\ ds' = ds /\ heap' = heap
          /\ file_sources' = file_sources
          /\ file_tracking_enabled' = file_tracking_enabled
          /\ concat_dim' = concat_dim
          /\ (CoordLacks(call'.dim, "frequency") /\ ~CoordLacks(call'.dim, "units")
                => ret'.value = "ValueError: no frequency attribute")]_vars

\* C21 witness: grouping a tracked dataset along time failed for the missing
\* frequency attribute.
C21_Witness ==
    /\ call.op = "groupby_time" /\ call.dim = "time"
    /\ ret = Raised("ValueError: no frequency attribute")
    /\ file_tracking_enabled /\ Len(file_sources) = 2
    /\ result = <<>>

(***************************************************************************)
(* History replay                                                          *)
(***************************************************************************)
\* C22: for a dataset built by any sequence of recorded builder operations
\* (with or without data arguments, successful or failing), replaying its
\* history yields a dataset with the same dims, the same global attrs, and
\* the same coordinate and variable names in the same order.
C22_ReplayAsClaimed ==
    call.op = "replay_history" =>
        /\ ret.status = "ok"
        /\ ret.value.dims = ds.dims
        /\ ret.value.attrs = ds.attrs
        /\ KeyList(ret.value.coords) = KeyList(ds.coords)
        /\ KeyList(ret.value.variables) = KeyList(ds.variables)

(***************************************************************************)
(* Validator tie-break                                                     *)
(***************************************************************************)
\* Record i violates a rule: it lacks concat_dim, its variable-name set
\* differs from the first record's, or a variable it shares with the first
\* record has another dims tuple.
LacksDim(fm, cd, i) == cd \notin DOMAIN fm[i].dims
VarsDiffer(fm, i) == VarNamesOf(fm[i]) # VarNamesOf(fm[1])
DimsDiffer(fm, i) ==
    \E x \in VarNamesOf(fm[i]) \cap VarNamesOf(fm[1]) :
        fm[i].variables[x].dims # fm[1].variables[x].dims
Offends(fm, cd, i) == LacksDim(fm, cd, i) \/ VarsDiffer(fm, i) \/ DimsDiffer(fm, i)
LowestOffender(fm, cd) ==
    CHOOSE i \in 1..Len(fm) : Offends(fm, cd, i) /\ \A j \in 1..(i - 1) : ~Offends(fm, cd, j)

\* C23: for a list with at least one violation the validator reports the
\* violation of the lowest-indexed offending record, Rule 1 before Rule 2
\* before Rule 3 for that record, and the same single violation on every run.
C23_TieBreakAsClaimed ==
    (IsValidate /\ \E i \in 1..Len(file_metadata) : Offends(file_metadata, call.concat_dim, i)) =>
        LET fm == file_metadata
            cd == call.concat_dim
            i == LowestOffender(fm, cd)
        IN  /\ ret.status = "raise"
            /\ ret.value.index = i - 1
            /\ ret.value.kind = (IF LacksDim(fm, cd, i) THEN "missing_dim"
                                 ELSE IF VarsDiffer(fm, i) THEN "variable_mismatch"
                                 ELSE "dimension_mismatch")
            /\ Cardinality(ValidateFileCompatibility(fm, cd)) = 1

(***************************************************************************)
(* Planner termination                                                     *)
(***************************************************************************)
\* An iteration of the loop of create_time_periods that appended a period.
Iterated == pc = "loop" /\ Len(periods') = Len(periods) + 1

\* C24: create_time_periods terminates for every start, end and every
\* group_freq with an integer multiplier and a supported suffix: on every loop
\* iteration current strictly advances.
C24_TerminationAsClaimed ==
    [][(Iterated /\ SupportedSuffix(group_freq)) => Before(current, current')]_vars

(***************************************************************************)
(* Planner totality                                                        *)
(***************************************************************************)
\* C30: create_time_periods with a Y or M suffix and a positive multiplier
\* returns a period list without raising for every valid start < end,
\* including starts on day 29, 30 or 31 and a 29 February start with a Y step.
C30_TotalityAsClaimed ==
    (/\ pc \in {"done", "raised"}
     /\ group_freq[2] \in {"Y", "M"} /\ group_freq[1] >= 1
     /\ Before(start, end)) => (pc = "done" /\ ret.status = "ok")

(***************************************************************************)
(* Registry readers                                                        *)
(***************************************************************************)
ReaderOps ==
    {"get_source_files", "get_file_info", "file_sources", "get_file_info.setitem",
     "file_sources.setitem", "file_sources.entry.setitem"}

\* C25: get_source_files, get_file_info and file_sources leave the registry
\* unchanged (get_file_info on an unknown source fails without changing it),
\* and modifying what they returned (a field of the dict from get_file_info,
\* an entry or a nested field of an entry reached through file_sources) does
\* not change what later get_file_info / file_sources calls return.
C25_CopiesAsClaimed ==
    [][call'.op \in ReaderOps =>
          /\ file_sources' = file_sources
          /\ \A fp \in {"a.nc", "b.nc", "c.nc"} :
                GetFileInfo(file_sources', fp) = GetFileInfo(file_sources, fp)
          /\ (call'.op = "get_file_info" /\ ~HasKey(file_sources, call'.filepath)
                => ret'.status = "raise")]_vars

(***************************************************************************)
(* Range queries on an opened dataset                                      *)
(***************************************************************************)
\* A query on the dataset open_mfdataset returned from the records file_metadata.
QueriedAfterOpen == IsQuery /\ file_tracking_enabled /\ file_metadata # <<>>

\* The record's file holds a concat-coordinate value v with a <= v < b: its
\* values are the integers from the first to the last of its stored range.
HoldsValueIn(metadata, cd, a, b) ==
    \E v \in metadata.coord_ranges[cd][1].v .. metadata.coord_ranges[cd][2].v :
        a <= v /\ v < b

\* C26: after open_mfdataset, for every numeric selector slice(a, b) with
\* a < b, get_source_files returns every file that holds a concat-coordinate
\* value v with a <= v < b, a value equal to the file's first or last value
\* and files with a single value included.
C26_NoFalseNegativesAsClaimed ==
    (QueriedAfterOpen /\ call.coord_slice.kind = "slice"
        /\ call.coord_slice.start.v < call.coord_slice.stop.v) =>
        \A i \in 1..Len(file_metadata) :
            HoldsValueIn(file_metadata[i], concat_dim,
                         call.coord_slice.start.v, call.coord_slice.stop.v)
                => InResult(file_metadata[i].filepath)

(***************************************************************************)
(* Step conservation                                                       *)
(***************************************************************************)
\* The sizes of the first n groups along the grouping dimension, summed.
RECURSIVE GroupSizeSum(_)
GroupSizeSum(n) == IF n = 0 THEN 0 ELSE GroupSizeSum(n - 1) + result[n].dims[call.dim]

\* The date lies a whole number of stored-frequency steps after the reference date.
OnStep(t) ==
    LET step == StoredFrequency.n * UnitSeconds(StoredFrequency.unit)
        diff == Seconds(t) - Seconds(RefDate)
    IN  IF step = 0 THEN diff = 0 ELSE diff % Abs(step) = 0 /\ t.micro = 0

AllBoundariesOnStep ==
    \A i \in 1..Len(PlannedPeriods) :
        OnStep(PlannedPeriods[i][1]) /\ OnStep(PlannedPeriods[i][2])

\* C27: the groups' sizes along the grouping dimension are all >= 0 and sum to
\* at most the parent's size n; the sum is n whenever every period boundary
\* lies a whole number of stored-frequency steps after the reference date.
C27_ConservationAsClaimed ==
    Grouped =>
        /\ \A i \in 1..Len(result) : result[i].dims[call.dim] >= 0
        /\ GroupSizeSum(Len(result)) <= ds.dims[call.dim]
        /\ AllBoundariesOnStep => GroupSizeSum(Len(result)) = ds.dims[call.dim]

(***************************************************************************)
(* Inferred tokens                                                         *)
(***************************************************************************)
\* C28: for every input, constant or decreasing coordinate values included,
\* infer_time_frequency returns None or a token <N><H|D|T|S> with N >= 1.
C28_WellFormedAsClaimed ==
    IsInfer =>
        \/ IsNone(ret.value)
        \/ /\ ret.value.unit \in {"H", "D", "T", "S"}
           /\ ret.value.n >= 1

(***************************************************************************)
(* Registry and dimension after open                                       *)
(***************************************************************************)
\* The per-file concat-dim sizes recorded in the first n registry entries,
\* summed.
RECURSIVE RegistrySizeSum(_)
RegistrySizeSum(n) ==
    IF n = 0 THEN 0
    ELSE RegistrySizeSum(n - 1) + file_sources[n].metadata.v.dims[call.concat_dim]

OpenedList == IsOpen /\ ret.status = "ok" /\ call.paths.kind = "list"

\* C29: whenever open_mfdataset returns a dataset for a list of N sources, the
\* registry has exactly N entries and dims[concat_dim] is the sum of the
\* per-file sizes its entries record, a list that repeats a path included.
C29_ConsistencyAsClaimed ==
    OpenedList =>
        /\ Len(file_sources) = Len(call.paths.items)
        /\ ds.dims[call.concat_dim] = RegistrySizeSum(Len(file_sources))

====
